---- MODULE Spec2Model ----
(***************************************************************************)
(* Skill Registry Coordinator of lan-agent-skills: the FastAPI handlers of *)
(* server/main.py over the semantic index (server/vector_store.py) and the *)
(* versioned store (server/git_manager.py), and the client SDK entry       *)
(* (client/agent.py).                                                      *)
(*                                                                         *)
(* Every handler of main.py is an `async def` without an await, so a       *)
(* handler runs to completion on the event loop: one action per handler.   *)
(* The order of the adapter calls inside a handler is kept in last.stages. *)
(* The handler bodies are modelled from their first adapter call on.       *)
(* main.py names Skill, SkillStatus, datetime and the typing generics      *)
(* without importing them and builds the Skill of main.py:277-284 and      *)
(* main.py:152-158 without its required `code` field; the model reads      *)
(* these names as the definitions of shared/models.py and takes the Skill  *)
(* value to be the record the handler goes on to pass to the adapters.     *)
(* An exception inside the per-file try of rebuild_index is the `failed`   *)
(* set of Startup.                                                         *)
(*                                                                         *)
(* The module holds several specifications over the same variables:        *)
(*   Spec, FairSpec  the coordinator, one action per handler               *)
(*   SpecIndex       the VectorStore called on its own                     *)
(*   SpecGit         the GitManager called on its own                      *)
(*   SpecInit        GitManager.initialize over one path, by managers of   *)
(*                   either mode                                           *)
(*   SpecSearch      search_skills and list_skills over an index filled    *)
(*                   with tagged skills                                    *)
(*   SpecSidecar     skills committed with their metadata files and read   *)
(*                   back by rebuild_index                                 *)
(*   SpecFlush       the index written while the app serves, its flushes   *)
(*                   to disk and the shutdown                              *)
(*   SpecValidate    uploads and validate_skill_code                       *)
(*   SpecRegistry    the Notification Hub: its two registries under        *)
(*                   connect, messages, disconnect and stop                *)
(*   SpecRebuild     the lifespan and delete over a repository that holds  *)
(*                   two skill files when the coordinator first starts     *)
(*   SpecSync        one run of the coordinator with the sync endpoint,    *)
(*                   the agent's sync and the clocks of the two hosts      *)
(*   SpecLoop        the handlers as tasks of the event loop, one step per *)
(*                   adapter call entered or returned                      *)
(*   SpecHub         the Notification Hub (server/websocket_server.py):    *)
(*                   connections and broadcast                             *)
(*   SpecConn        the Notification Hub: the life of a connection, its   *)
(*                   inbound messages and the sends to one client          *)
(*   SpecLife,       the Notification Hub: connections accepted, closed    *)
(*   FairLife        and unregistered, under a fair event loop             *)
(*   SpecSdk,        the request loop of the SDK (client/agent.py), one    *)
(*   FairSdk         step per attempt and per backoff                      *)
(***************************************************************************)
EXTENDS Integers, Sequences, FiniteSets, TLC

VARIABLES
    pc,          \* "down" | "serving": the lifespan of the FastAPI app
    adapters,    \* the globals git_manager and vector_store that are not None
    owed,        \* the skill files the rebuild that ran last failed to index
    removed,     \* the index entries delete_skill has removed
    bare_mode,   \* GitManager.bare_mode, read from the configuration
    collection,  \* VectorStore.collection: the index entries held in memory
    persisted,   \* the index entries on disk (last successful client.persist())
    repo_exists, \* GitManager.repo has been created on disk
    disk,        \* the entries of repo_path: git's own and the scaffold's
    skills,      \* working tree, skills/<stem>.py: stem -> code
    metadata,    \* working tree, metadata/<stem>.json: stem -> sidecar
    commits,     \* the commit log of the repository, oldest first
    nextId,      \* the next value generate_skill_id draws
    issued,      \* ids create_skill has returned to a caller
    deleted,     \* ids whose index entry delete_skill has removed
    events,      \* skill_update events handed to the Notification Hub
    last,        \* the request handled last and its observable outcome
    now,         \* datetime.utcnow() on the coordinator's host
    agent_now,   \* datetime.utcnow() on the agent's host
    agent,       \* SkillAgent: _last_sync, _skills_cache, the last response
    branches,    \* the branches that are not checked out: name -> commit log
    head,        \* the branch that is checked out; `commits` is its log
    tasks,       \* the request handlers on the event loop: kind, position
    running,     \* the task that holds the event loop, 0 when none does
    inflight,    \* the mutating adapter calls entered and not yet returned
    clients,     \* WebSocketServer.clients: the client ids registered
    client_info, \* WebSocketServer.client_info: client id -> info
    connections, \* each connection accepted: its handler task and its socket
    nextConn,    \* the next client id _handle_connection generates
    bcast,       \* the call of broadcast in progress or made last
    message_handlers, \* WebSocketServer.message_handlers: the types registered
    wire,        \* the inbound message or the send handled last by the hub
    call         \* SkillAgent._request: the request in progress or made last

\* the FastAPI application: its lifespan, its two module globals, and what
\* its last rebuild left out
app == <<pc, adapters, owed, removed>>

\* the clocks and the agent's sync state
clockVars == <<now, agent_now, agent>>

\* the branches of the repository and the layout of its directory
repoVars == <<branches, head, disk>>

\* the event loop of the coordinator's process
loopVars == <<tasks, running, inflight>>

\* the message side of the Notification Hub
wireVars == <<message_handlers, wire>>

\* the Notification Hub
hubVars == <<clients, client_info, connections, nextConn, bcast, wireVars>>

\* the request the SDK has in progress
sdkVars == <<call>>

\* what the handlers of create, delete and the lifespan leave alone
untouched == <<clockVars, repoVars, loopVars, hubVars, sdkVars>>

vars == <<app, bare_mode, collection, persisted, repo_exists, skills, metadata,
          commits, nextId, issued, deleted, events, last, untouched>>

(***************************************************************************)
(* Bounds                                                                  *)
(***************************************************************************)
MaxId == 2

\* the clocks stop at MaxClock
MaxClock == 1

\* the requests in flight together on the event loop
MaxTasks == 2

\* the connections the hub accepts
MaxConn == 3

\* the connections accepted while their messages are followed
MaxPeers == 2

(***************************************************************************)
(* shared/utils.py                                                         *)
(***************************************************************************)
\* A file name is a sequence of one-character strings.
IllegalChars == {"<", ">", ":", "\"", "/", "\\", "|", "?", "*"}

ControlChars == {"\n", "\t", "\r"}

MaxFilenameLen == 200

FallbackName == <<"s", "k", "i", "l", "l">>

Min(a, b) == IF a < b THEN a ELSE b

sanitize_filename(filename) ==
    LET subst   == [i \in 1..Len(filename) |->
                       IF filename[i] \in IllegalChars THEN "_" ELSE filename[i]]
        printable == SelectSeq(subst, LAMBDA c : c \notin ControlChars)
        cut     == SubSeq(printable, 1, Min(Len(printable), MaxFilenameLen))
    IN  IF cut = <<>> \/ cut = <<".">> THEN FallbackName ELSE cut

\* Code texts of the model and what Python's compile() says of each.
ValidPy   == "def f(): pass"
InvalidPy == "def f(:"
BlankCode == " "

Codes == {ValidPy, InvalidPy, BlankCode}

IsBlank(code) == code \in {"", BlankCode}

PyCompiles(code) == code = ValidPy

\* validate_skill_code: TRUE iff the first component of the result is True
validate_skill_code(code, language) ==
    IF IsBlank(code) THEN FALSE
    ELSE IF language = "python" THEN PyCompiles(code)
    ELSE TRUE

(***************************************************************************)
(* shared/models.py: the requests the model submits                        *)
(***************************************************************************)
SkillMetadata(name, author, tags) ==
    [name |-> name, author |-> author, tags |-> tags]

CsvTag == <<"c", "s", "v">>

\* two names that sanitize to one file name; one code that does not compile
Requests ==
    { [metadata |-> SkillMetadata(<<"b", ":">>, "", <<>>),          code |-> InvalidPy],
      [metadata |-> SkillMetadata(<<"b", "_">>, "bob", <<CsvTag>>), code |-> ValidPy] }

\* created_at and updated_at default to datetime.utcnow()
Skill(id, md, status, created_by) ==
    [id |-> id, metadata |-> md, status |-> status, created_by |-> created_by,
     created_at |-> now, updated_at |-> now]

\* Optional[datetime] = None
Null == -1

\* SyncRequest
SyncRequest(agent_id, last_sync, local_skills) ==
    [agent_id |-> agent_id, last_sync |-> last_sync,
     local_skills |-> local_skills]

\* SyncResponse: next_sync defaults to datetime.utcnow() of the coordinator
SyncResponse(new_skills, updated_skills, deleted_skills) ==
    [new_skills |-> new_skills, updated_skills |-> updated_skills,
     deleted_skills |-> deleted_skills, next_sync |-> now]

AgentName == "unnamed-agent"

(***************************************************************************)
(* server/vector_store.py                                                  *)
(***************************************************************************)
RECURSIVE Join(_)
\* ",".join(tags)
Join(tags) ==
    IF tags = <<>> THEN <<>>
    ELSE IF Len(tags) = 1 THEN tags[1]
    ELSE tags[1] \o <<",">> \o Join(Tail(tags))

DocId(skill_id) == <<"skill_", skill_id>>

\* the entry add_skill writes: ids=[doc_id], metadatas=[metadata]
IndexEntry(skill, code) ==
    [id       |-> DocId(skill.id),
     skill_id |-> skill.id,
     name     |-> skill.metadata.name,
     author   |-> skill.metadata.author,
     tags     |-> Join(skill.metadata.tags),
     status   |-> skill.status,
     created_at |-> skill.created_at,
     updated_at |-> skill.updated_at,
     document |-> code]

HasDoc(coll, doc_id) == \E e \in coll : e.id = doc_id

\* collection.delete(ids=[doc_id]): absent ids are ignored
CollectionDelete(coll, doc_id) == {e \in coll : e.id # doc_id}

\* get_skill_by_id: the set holding the entry, empty when None is returned
get_skill_by_id(skill_id) == {e \in collection : e.id = DocId(skill_id)}

\* get_all_skills
get_all_skills == collection

\* the entries search_skills can return under the where filter on author and status
search_skills(author, status) ==
    {e \in collection : /\ (author # "" => e.author = author)
                        /\ (status # "" => e.status = status)}

(***************************************************************************)
(* server/git_manager.py                                                   *)
(***************************************************************************)
\* a commit that touches no skill file carries this in place of a sidecar
NoSidecar ==
    [id |-> 0, name |-> <<>>, author |-> "", tags |-> <<>>,
     created_at |-> Null, updated_at |-> Null, created_by |-> "",
     status |-> ""]

InitialCommit ==
    [stem |-> <<>>, skill_id |-> 0, author |-> "LAN Agent Skills",
     code |-> "", sidecar |-> NoSidecar]

\* the directory initialize looks for under repo_path
GitDir(bare) == IF bare THEN "objects" ELSE ".git"

\* what Repo.init(bare=True) puts into repo_path
BareLayout == {"HEAD", "objects", "refs"}

\* what _create_initial_commit writes into the working tree
Scaffold == {"README.md", "skills/", "metadata/", "docs/", ".gitignore"}

\* an initialize that creates the repository without looking for one
initialize_without_check(files, log, bare) ==
    IF bare
    THEN [disk |-> files \cup BareLayout, commits |-> log, loaded |-> FALSE]
    ELSE [disk |-> files \cup {".git"} \cup Scaffold,
          commits |-> log \o <<InitialCommit>>, loaded |-> FALSE]

\* initialize: load the repository found under repo_path, or create one;
\* a new repository with a working tree gets the scaffold and the initial
\* commit, a new bare repository gets neither
initialize(files, log, bare) ==
    IF GitDir(bare) \in files
    THEN [disk |-> files, commits |-> log, loaded |-> TRUE]
    ELSE IF bare
         THEN [disk |-> files \cup BareLayout, commits |-> log, loaded |-> FALSE]
         ELSE [disk |-> files \cup {".git"} \cup Scaffold,
               commits |-> log \o <<InitialCommit>>, loaded |-> FALSE]

\* the sidecar add_skill writes to metadata/<stem>.json
Sidecar(skill) ==
    [id         |-> skill.id,
     name       |-> skill.metadata.name,
     author     |-> skill.metadata.author,
     tags       |-> skill.metadata.tags,
     created_at |-> skill.created_at,
     updated_at |-> skill.updated_at,
     created_by |-> skill.created_by,
     status     |-> skill.status]

Actor(author) == IF author = "" THEN "Unknown" ELSE author

\* get_skill_history: the commits touching skills/<stem>.py, newest first
RECURSIVE Reverse(_)
Reverse(s) == IF s = <<>> THEN <<>> ELSE Reverse(Tail(s)) \o <<Head(s)>>

HistoryIn(log, skill_name) ==
    Reverse(SelectSeq(log, LAMBDA c : c.stem = sanitize_filename(skill_name)))

get_skill_history(skill_name) == HistoryIn(commits, skill_name)

\* Where GitManager.add_skill raises: nowhere, at the write of the code file,
\* at the write of the sidecar, or at index.add / index.commit.
GitFailPoints == {"none", "code", "meta", "commit"}

(***************************************************************************)
(* The record of the request handled last                                  *)
(***************************************************************************)
Idle ==
    [op |-> "none", via |-> "none", id |-> 0, code |-> "",
     stages |-> <<>>, indexed |-> FALSE, committed |-> FALSE,
     outcome |-> "none", before |-> 0, existed |-> FALSE,
     fault |-> FALSE, success |-> FALSE, rebuilt |-> FALSE, failed |-> {},
     store_before |-> <<>>,
     request |-> SyncRequest("", Null, {}),
     response |-> [new_skills |-> {}, updated_skills |-> {},
                   deleted_skills |-> {}, next_sync |-> Null],
     index_before |-> {}, cursor_before |-> Null,
     filter |-> [tags |-> <<>>, author |-> "", status |-> "", top_k |-> 0],
     hits |-> {}, restored |-> {}, flush |-> "none",
     language |-> ""]


(***************************************************************************)
(* VectorStore mutations.  `fault` is an exception raised by the backend   *)
(* (the embedding model or the collection).                                *)
(***************************************************************************)
\* an add_skill that raises when the entry is already in the collection
add_skill_raises_late(coll, skill, code, fault) ==
    IF fault
    THEN [outcome |-> "error", coll |-> coll \cup {IndexEntry(skill, code)}]
    ELSE IF HasDoc(coll, DocId(skill.id))
         THEN [outcome |-> "IDAlreadyExists", coll |-> coll]
         ELSE [outcome |-> "ok", coll |-> coll \cup {IndexEntry(skill, code)}]

\* add_skill: collection.add refuses an id the collection already holds
add_skill(coll, skill, code, fault) ==
    IF fault THEN [outcome |-> "error", coll |-> coll]
    ELSE IF HasDoc(coll, DocId(skill.id))
         THEN [outcome |-> "IDAlreadyExists", coll |-> coll]
         ELSE [outcome |-> "ok", coll |-> coll \cup {IndexEntry(skill, code)}]

\* update_skill without the delete of the old entry
update_skill_insert_only(coll, skill, code, delFault, addFault) ==
    add_skill(coll, skill, code, addFault)

\* update_skill: delete the old entry (an exception of the delete is
\* swallowed), then add_skill
update_skill(coll, skill, code, delFault, addFault) ==
    add_skill(IF delFault THEN coll ELSE CollectionDelete(coll, DocId(skill.id)),
              skill, code, addFault)

\* delete_skill that reports success and leaves the entry in the collection
delete_skill_keeps_entry(coll, skill_id, fault) ==
    [success |-> ~fault, coll |-> coll]

\* delete_skill: True unless collection.delete raises
delete_skill(coll, skill_id, fault) ==
    IF fault THEN [success |-> FALSE, coll |-> coll]
    ELSE [success |-> TRUE, coll |-> CollectionDelete(coll, DocId(skill_id))]

\* persist: client.persist(), a failure is printed and swallowed
persist(coll, ok) == IF ok THEN coll ELSE persisted

\* a VectorStore whose methods leave persist() to the shutdown
PersistsNever(outcome) == FALSE

\* add_skill and delete_skill call self.persist() once the call on the
\* collection has returned
Persists(outcome) == outcome = "ok"

\* what a call of persist() came to: not called, the data written, or the
\* exception of the client printed
Flush(called, ok) ==
    IF ~called THEN "none" ELSE IF ok THEN "done" ELSE "swallowed"

(***************************************************************************)
(* GitManager.add_skill                                                    *)
(***************************************************************************)
Range(f) == {f[i] : i \in DOMAIN f}

Put(f, k, v) == [x \in DOMAIN f \cup {k} |-> IF x = k THEN v ELSE f[x]]

git_add_skill(skill, code, failAt) ==
    LET stem == sanitize_filename(skill.metadata.name)
    IN  IF bare_mode \/ failAt = "code"
        THEN [raised |-> TRUE, skills |-> skills, metadata |-> metadata,
              commits |-> commits]
        ELSE IF failAt = "meta"
        THEN [raised |-> TRUE, skills |-> Put(skills, stem, code),
              metadata |-> metadata, commits |-> commits]
        ELSE IF failAt = "commit"
        THEN [raised |-> TRUE, skills |-> Put(skills, stem, code),
              metadata |-> Put(metadata, stem, Sidecar(skill)),
              commits |-> commits]
        ELSE [raised |-> FALSE, skills |-> Put(skills, stem, code),
              metadata |-> Put(metadata, stem, Sidecar(skill)),
              commits |-> Append(commits,
                                 [stem |-> stem, skill_id |-> skill.id,
                                  author |-> Actor(skill.metadata.author),
                                  code |-> code,
                                  sidecar |-> Sidecar(skill)])]

(***************************************************************************)
(* GitManager.create_branch and GitManager.merge_branch, over the          *)
(* repository as a value: working tree, log of HEAD, other branches        *)
(***************************************************************************)
Repo ==
    [skills |-> skills, metadata |-> metadata, commits |-> commits,
     branches |-> branches, head |-> head]

Drop(f, k) == [x \in DOMAIN f \ {k} |-> f[x]]

RECURSIVE TreeOf(_)
\* the skill files tracked by the last commit of a log: stem -> code, sidecar
TreeOf(log) ==
    IF log = <<>> THEN <<>>
    ELSE LET c == log[Len(log)]
             below == TreeOf(SubSeq(log, 1, Len(log) - 1))
         IN  IF c.stem = <<>> THEN below
             ELSE Put(below, c.stem, [code |-> c.code, sidecar |-> c.sidecar])

\* the two files of a stem in a tree, each present or absent
Tracked(tree, stem) ==
    IF stem \in DOMAIN tree
    THEN [code |-> {tree[stem].code}, sidecar |-> {tree[stem].sidecar}]
    ELSE [code |-> {}, sidecar |-> {}]

\* the two files of a stem in the working tree
Working(R, stem) ==
    [code    |-> IF stem \in DOMAIN R.skills THEN {R.skills[stem]} ELSE {},
     sidecar |-> IF stem \in DOMAIN R.metadata THEN {R.metadata[stem]} ELSE {}]

\* the stems whose working files differ from the commit checked out
Dirty(R) ==
    {stem \in DOMAIN R.skills \cup DOMAIN R.metadata \cup DOMAIN TreeOf(R.commits) :
        Working(R, stem) # Tracked(TreeOf(R.commits), stem)}

\* git moves HEAD's working tree to the tree of `log`: local changes are
\* carried over, and the move is refused when it would overwrite one
MoveTo(R, log) ==
    LET from == TreeOf(R.commits)
        to == TreeOf(log)
        dirty == Dirty(R)
        file(stem) == IF stem \in dirty THEN Working(R, stem)
                      ELSE Tracked(to, stem)
        stems == DOMAIN to \cup dirty
    IN  IF \E stem \in dirty : Tracked(to, stem) # Tracked(from, stem)
        THEN [raised |-> TRUE, repo |-> R]
        ELSE [raised |-> FALSE,
              repo |-> [R EXCEPT
                 !.skills = [stem \in {x \in stems : file(x).code # {}} |->
                                CHOOSE c \in file(stem).code : TRUE],
                 !.metadata = [stem \in {x \in stems : file(x).sidecar # {}} |->
                                CHOOSE m \in file(stem).sidecar : TRUE],
                 !.commits = log]]

BranchExists(R, b) == b = R.head \/ b \in DOMAIN R.branches

LogOf(R, b) == IF b = R.head THEN R.commits ELSE R.branches[b]

\* repo.git.checkout(b)
checkout(R, b) ==
    IF ~BranchExists(R, b) THEN [raised |-> TRUE, repo |-> R]
    ELSE IF b = R.head THEN [raised |-> FALSE, repo |-> R]
    ELSE LET m == MoveTo(R, R.branches[b])
         IN  IF m.raised THEN m
             ELSE [raised |-> FALSE,
                   repo |-> [m.repo EXCEPT
                               !.branches = Put(Drop(R.branches, b),
                                                R.head, R.commits),
                               !.head = b]]

\* create_branch without the refusal on a bare repository
create_branch_unguarded(R, branch_name, from_branch) ==
    LET c == checkout(R, from_branch)
        made == IF BranchExists(c.repo, branch_name) THEN c.repo
                ELSE [c.repo EXCEPT
                        !.branches = Put(@, branch_name, c.repo.commits)]
        k == checkout(made, branch_name)
    IN  IF c.raised THEN [outcome |-> "GitCommandError", repo |-> R]
        ELSE [outcome |-> "ok", repo |-> k.repo]

\* create_branch: refuse on a bare repository; check out from_branch;
\* create_head(branch_name), which raises when the name exists at another
\* commit; check the new branch out
create_branch(R, branch_name, from_branch) ==
    IF bare_mode THEN [outcome |-> "ValueError", repo |-> R]
    ELSE LET c == checkout(R, from_branch)
             made == IF BranchExists(c.repo, branch_name) THEN c.repo
                     ELSE [c.repo EXCEPT
                             !.branches = Put(@, branch_name, c.repo.commits)]
             k == checkout(made, branch_name)
         IN  IF c.raised THEN [outcome |-> "GitCommandError", repo |-> R]
             ELSE IF /\ BranchExists(c.repo, branch_name)
                     /\ LogOf(c.repo, branch_name) # c.repo.commits
             THEN [outcome |-> "OSError", repo |-> c.repo]
             ELSE [outcome |-> "ok", repo |-> k.repo]

\* the commit `git merge` creates for a merge that is not a fast-forward
MergeCommit ==
    [stem |-> <<>>, skill_id |-> 0, author |-> "merge", code |-> "",
     sidecar |-> NoSidecar]

\* the commits of `log` that `other` does not hold, in order
Missing(log, other) == SelectSeq(log, LAMBDA c : c \notin Range(other))

Stems(log) == {log[i].stem : i \in DOMAIN log} \ {<<>>}

\* repo.git.merge(source_branch) on the branch checked out
git_merge(R, source_branch) ==
    LET ours == R.commits
        theirs == LogOf(R, source_branch)
        incoming == Missing(theirs, ours)
        merged == IF Missing(ours, theirs) = <<>> THEN theirs
                  ELSE ours \o incoming \o <<MergeCommit>>
        m == MoveTo(R, merged)
    IN  IF incoming = <<>> THEN [raised |-> FALSE, repo |-> R]
        ELSE IF Stems(incoming) \cap Stems(Missing(ours, theirs)) # {}
        THEN [raised |-> TRUE, repo |-> R]
        ELSE m

\* merge_branch: refuse on a bare repository; check out target_branch;
\* merge source_branch into it
merge_branch(R, source_branch, target_branch) ==
    IF bare_mode THEN [outcome |-> "ValueError", repo |-> R]
    ELSE LET c == checkout(R, target_branch)
             g == git_merge(c.repo, source_branch)
         IN  IF c.raised THEN [outcome |-> "GitCommandError", repo |-> R]
             ELSE IF ~BranchExists(c.repo, source_branch) \/ g.raised
             THEN [outcome |-> "GitCommandError", repo |-> c.repo]
             ELSE [outcome |-> "ok", repo |-> g.repo]

\* a slot of the event loop that holds no request
NoTask ==
    [kind |-> "none", pc |-> "none", id |-> 0,
     request |-> [metadata |-> SkillMetadata(<<>>, "", <<>>), code |-> ""]]

(***************************************************************************)
(* server/websocket_server.py: the values of the hub's state               *)
(***************************************************************************)
\* a client id no connection has been given yet
NoConnection == [handler |-> "none", socket |-> "none"]

\* `exclude: str = None`
NoClient == 0

\* no call of broadcast has been made
NoBroadcast ==
    [phase |-> "idle", exclude |-> NoClient, at_call |-> {}, todo |-> {},
     made |-> {}, pending |-> {}, attempts |-> <<>>, skipped |-> {}]

\* data.get("type", "unknown") found no type field
NoType == ""

\* an inbound text frame: whether json.loads accepts it, whether the value
\* is a JSON object, and the value of its "type" field
Message(wellformed, is_object, type) ==
    [wellformed |-> wellformed, is_object |-> is_object, type |-> type]

\* the hub has handled no message and no send
NoWire ==
    [op |-> "none", client |-> NoClient, message |-> Message(FALSE, FALSE, NoType),
     handlers |-> {}, branch |-> "none", replies |-> <<>>,
     raised |-> FALSE, registry_kept |-> TRUE]

\* the SDK has made no request
NoCall ==
    [method |-> "none", encodable |-> TRUE, phase |-> "idle", attempt |-> 0,
     log |-> <<>>, slept |-> 0, error |-> "none"]

(***************************************************************************)
(* Initial state: the process is not running, nothing is on disk           *)
(***************************************************************************)
Init ==
    /\ pc = "down"
    /\ adapters = {}
    /\ owed = {}
    /\ removed = {}
    /\ bare_mode \in BOOLEAN
    /\ collection = {}
    /\ persisted = {}
    /\ repo_exists = FALSE
    /\ disk = {}
    /\ skills = <<>>
    /\ metadata = <<>>
    /\ commits = <<>>
    /\ nextId = 1
    /\ issued = {}
    /\ deleted = {}
    /\ events = <<>>
    /\ last = Idle
    /\ now = 0
    /\ agent_now = 0
    /\ agent = [last_sync |-> Null, skills_cache |-> {}, next_sync |-> Null]
    /\ branches = <<>>
    /\ head = "master"
    /\ tasks = [t \in 1..MaxTasks |-> NoTask]
    /\ running = 0
    /\ inflight = {}
    /\ clients = {}
    /\ client_info = <<>>
    /\ connections = [c \in 1..MaxConn |-> NoConnection]
    /\ nextConn = 1
    /\ bcast = NoBroadcast
    /\ message_handlers = {}
    /\ wire = NoWire
    /\ call = NoCall

(***************************************************************************)
(* main.py: the module globals the lifespan fills and the handlers test    *)
(***************************************************************************)
\* git_manager = None, vector_store = None until the lifespan assigns them
Adapters == {"git_manager", "vector_store"}

\* `if not vector_store or not git_manager: raise HTTPException(503)`
Unavailable(needed) == ~(needed \subseteq adapters)

(***************************************************************************)
(* main.py create_skill                                                    *)
(***************************************************************************)
\* a create handler that enters the git stage on any repository
CommitStageAlways(bare) == TRUE

\* `if not git_manager.bare_mode:` in front of the git stage
CommitStageRuns(bare) == ~bare

CreateSkillHandler(request, via) ==
    /\ pc = "serving"
    /\ IF Unavailable(Adapters)
       THEN /\ last' = [Idle EXCEPT !.op = "create", !.via = via,
                                    !.code = request.code,
                                    !.before = Cardinality(collection),
                                    !.store_before = <<skills, metadata, commits>>,
                                    !.index_before = collection,
                                    !.outcome = "error503"]
            /\ UNCHANGED <<collection, persisted, skills, metadata,
                           commits, issued, nextId>>
       ELSE
            /\ nextId <= MaxId
            /\ \E idxFault \in BOOLEAN, pok \in BOOLEAN, failAt \in GitFailPoints :
                 LET skill_id == nextId
                     skill == Skill(skill_id, request.metadata, "active",
                                    request.metadata.author)
                     r == add_skill(collection, skill, request.code, idxFault)
                     g == git_add_skill(skill, request.code, failAt)
                     req == [Idle EXCEPT !.op = "create", !.via = via, !.id = skill_id,
                                         !.code = request.code,
                                         !.fault = idxFault,
                                         !.before = Cardinality(collection),
                                         !.store_before =
                                            <<skills, metadata, commits>>,
                                         !.index_before = collection]
                 IN  IF r.outcome # "ok"
                     THEN /\ last' = [req EXCEPT !.stages = <<"index">>,
                                                 !.outcome = "error500"]
                          /\ collection' = r.coll
                          /\ UNCHANGED <<persisted, skills, metadata,
                                         commits, issued>>
                     ELSE /\ collection' = r.coll
                          /\ persisted' = persist(r.coll, pok)
                          /\ IF CommitStageRuns(bare_mode)
                             THEN /\ skills' = g.skills
                                  /\ metadata' = g.metadata
                                  /\ commits' = g.commits
                                  /\ last' = [req EXCEPT
                                                !.stages = <<"index", "commit">>,
                                                !.indexed = TRUE,
                                                !.committed = ~g.raised,
                                                !.outcome = "ok"]
                             ELSE /\ UNCHANGED <<skills, metadata, commits>>
                                  /\ last' = [req EXCEPT !.stages = <<"index">>,
                                                         !.indexed = TRUE,
                                                         !.outcome = "ok"]
                          /\ issued' = issued \cup {skill_id}
            /\ nextId' = nextId + 1
    /\ UNCHANGED <<app, bare_mode, repo_exists, deleted, events, untouched>>

\* a POST sent straight to the create endpoint
CreateSkill == \E request \in Requests : CreateSkillHandler(request, "direct")

(***************************************************************************)
(* client/agent.py upload_skill                                            *)
(***************************************************************************)
UploadSkill ==
    \E request \in Requests :
        LET md == request.metadata
            sent == [request EXCEPT !.metadata.author =
                        IF md.author = "" THEN AgentName ELSE md.author]
            req == [Idle EXCEPT !.op = "create", !.via = "sdk",
                                !.code = request.code,
                                !.before = Cardinality(collection)]
        IN  IF ~validate_skill_code(request.code, "python")
            THEN /\ last' = [req EXCEPT !.outcome = "ValueError"]
                 /\ UNCHANGED <<app, bare_mode, collection, persisted,
                                repo_exists, skills, metadata, commits, nextId,
                                issued, deleted, events, untouched>>
            ELSE IF pc = "serving"
            THEN CreateSkillHandler(sent, "sdk")
            ELSE /\ last' = [req EXCEPT !.outcome = "request_failed"]
                 /\ UNCHANGED <<app, bare_mode, collection, persisted,
                                repo_exists, skills, metadata, commits, nextId,
                                issued, deleted, events, untouched>>

\* the languages a caller declares; validate_skill_code checks "python"
Languages == {"python", "javascript"}

\* validate_skill_code called on its own
ValidateCode ==
    \E code \in Codes \cup {""}, language \in Languages :
        /\ last' = [Idle EXCEPT !.op = "validate", !.code = code,
                                !.language = language,
                                !.success = validate_skill_code(code, language),
                                !.outcome = IF validate_skill_code(code, language)
                                            THEN "ok" ELSE "rejected"]
        /\ UNCHANGED <<app, bare_mode, collection, persisted, repo_exists,
                       skills, metadata, commits, nextId, issued, deleted,
                       events, untouched>>

(***************************************************************************)
(* main.py delete_skill                                                    *)
(***************************************************************************)
DeleteSkill ==
    /\ pc = "serving"
    /\ \E skill_id \in 1..MaxId, fault \in BOOLEAN, pok \in BOOLEAN :
         LET d == delete_skill(collection, skill_id, fault)
             req == [Idle EXCEPT !.op = "delete", !.via = "direct",
                                 !.id = skill_id,
                                 !.before = Cardinality(collection),
                                 !.existed = HasDoc(collection, DocId(skill_id)),
                                 !.store_before = <<skills, metadata, commits>>]
         IN  IF Unavailable({"vector_store"})
             THEN /\ last' = [req EXCEPT !.outcome = "error503"]
                  /\ UNCHANGED <<collection, persisted, deleted, removed>>
             ELSE /\ collection' = d.coll
                  /\ persisted' = IF d.success THEN persist(d.coll, pok)
                                  ELSE persisted
                  /\ deleted' = IF d.success /\ HasDoc(collection, DocId(skill_id))
                              THEN deleted \cup {skill_id} ELSE deleted
                  /\ removed' = removed \cup (collection \ d.coll)
                  /\ last' = [req EXCEPT !.fault = fault, !.success = d.success,
                                          !.outcome =
                                             IF d.success THEN "ok" ELSE "error500"]
    /\ UNCHANGED <<pc, adapters, owed, bare_mode, repo_exists, skills,
                   metadata, commits, nextId, issued, events, untouched>>

(***************************************************************************)
(* main.py lifespan and rebuild_index                                      *)
(***************************************************************************)
\* the orders in which skills_dir.glob("*.py") can yield the files
Orders(stems) ==
    {o \in [1..Cardinality(stems) -> stems] :
        \A i, j \in 1..Cardinality(stems) : i # j => o[i] # o[j]}

\* the Skill rebuild_index builds for skills/<stem>.py, under a fresh id
RebuiltSkill(stem, id) ==
    LET md == IF stem \in DOMAIN metadata
              THEN SkillMetadata(metadata[stem].name, metadata[stem].author,
                                 metadata[stem].tags)
              ELSE SkillMetadata(stem, "unknown", <<>>)
    IN  Skill(id, md, "active", "")

\* the entries rebuild_index adds for the files it manages to index, in order
RebuiltEntries(order, firstId) ==
    [i \in 1..Len(order) |->
        IndexEntry(RebuiltSkill(order[i], firstId + i - 1), skills[order[i]])]

\* lifespan, startup half: initialize the repository, open the collection,
\* rebuild the index when the collection is empty
Startup ==
    /\ pc = "down"
    /\ pc' = "serving"
    /\ adapters' = Adapters
    /\ UNCHANGED removed
    /\ repo_exists' = TRUE
    /\ disk' = initialize(disk, commits, bare_mode).disk
    /\ commits' = initialize(disk, commits, bare_mode).commits
    /\ IF Cardinality(collection) = 0 /\ ~bare_mode
       THEN \E failed \in SUBSET (DOMAIN skills) :
              \E order \in Orders(DOMAIN skills \ failed) :
                 \E persistedUpTo \in 0..Len(order) :
                    LET added == RebuiltEntries(order, nextId)
                    IN  /\ nextId + Len(order) <= MaxId + 1
                        /\ collection' = Range(added)
                        /\ persisted' = IF persistedUpTo = 0 THEN persisted
                                        ELSE {added[i] : i \in 1..persistedUpTo}
                        /\ nextId' = nextId + Len(order)
                        /\ owed' = failed
                        /\ last' = [Idle EXCEPT !.op = "startup",
                                                !.rebuilt = TRUE,
                                                !.failed = failed,
                                                !.outcome = "ok"]
       ELSE /\ UNCHANGED <<collection, persisted, nextId, owed>>
            /\ last' = [Idle EXCEPT !.op = "startup", !.outcome = "ok",
                                    !.before = Cardinality(collection)]
    /\ UNCHANGED <<bare_mode, skills, metadata, issued, deleted, events,
                   clockVars, branches, head, loopVars, hubVars, sdkVars>>

\* a lifespan whose except clause logs the exception and goes on to `yield`
AfterFailedStartupServes == "serving"

\* `except Exception as e: logger.error(...); raise`: the startup of the
\* application fails and the server process exits
AfterFailedStartup == "down"

\* lifespan: an exception of GitManager.initialize or of the VectorStore
\* constructor is re-raised and the application does not start.  Both
\* raise after `git_manager = GitManager(...)` and before vector_store is
\* assigned.
StartupFails ==
    /\ pc = "down"
    /\ pc' = AfterFailedStartup
    /\ adapters' = IF AfterFailedStartup = "down" THEN {} ELSE {"git_manager"}
    /\ UNCHANGED <<owed, removed>>
    /\ \E at \in {"git", "vector_db"} :
         /\ repo_exists' = (repo_exists \/ at = "vector_db")
         /\ disk' = IF at = "vector_db"
                    THEN initialize(disk, commits, bare_mode).disk ELSE disk
         /\ commits' = IF at = "vector_db"
                       THEN initialize(disk, commits, bare_mode).commits
                       ELSE commits
         /\ last' = [Idle EXCEPT !.op = "startup", !.outcome = "failed"]
    /\ UNCHANGED <<bare_mode, collection, persisted, skills, metadata,
                   nextId, issued, deleted, events,
                   clockVars, branches, head, loopVars, hubVars, sdkVars>>

\* lifespan, shutdown half: persist, then the process and its memory are gone
Shutdown ==
    /\ pc = "serving"
    /\ pc' = "down"
    /\ adapters' = {}
    /\ UNCHANGED <<owed, removed>>
    /\ \E pok \in BOOLEAN :
         /\ persisted' = persist(collection, pok)
         /\ collection' = persisted'
         /\ last' = [Idle EXCEPT !.op = "shutdown", !.outcome = "ok",
                                 !.flush = Flush(TRUE, pok),
                                 !.index_before = collection]
    /\ UNCHANGED <<bare_mode, repo_exists, skills, metadata, commits, nextId,
                   issued, deleted, events, untouched>>

Next ==
    \/ Startup
    \/ StartupFails
    \/ Shutdown
    \/ CreateSkill
    \/ UploadSkill
    \/ DeleteSkill

Spec == Init /\ [][Next]_vars

\* validation on its own and inside the upload of the SDK
NextValidate ==
    \/ Startup
    \/ UploadSkill
    \/ ValidateCode

SpecValidate == Init /\ [][NextValidate]_vars

(***************************************************************************)
(* The lifespan over a repository that already holds skill files: the      *)
(* coordinator is started on an existing working repository (initialize    *)
(* loads it) whose two skill files were committed without a sidecar, with  *)
(* an empty index directory                                                *)
(***************************************************************************)
\* the skill files of the existing repository
StoredStems == {<<"a">>, <<"b", "_">>}

\* the commit that added skills/<stem>.py
StoredCommit(stem) ==
    [stem |-> stem, skill_id |-> 0, author |-> "Unknown", code |-> ValidPy,
     sidecar |-> NoSidecar]

InitRebuild ==
    /\ pc = "down"
    /\ adapters = {}
    /\ owed = {}
    /\ removed = {}
    /\ bare_mode = FALSE
    /\ collection = {}
    /\ persisted = {}
    /\ repo_exists = TRUE
    /\ disk = {".git"} \cup Scaffold
    /\ skills = [stem \in StoredStems |-> ValidPy]
    /\ metadata = <<>>
    /\ commits = <<InitialCommit, StoredCommit(<<"a">>),
                   StoredCommit(<<"b", "_">>)>>
    /\ nextId = 1
    /\ issued = {}
    /\ deleted = {}
    /\ events = <<>>
    /\ last = Idle
    /\ now = 0
    /\ agent_now = 0
    /\ agent = [last_sync |-> Null, skills_cache |-> {}, next_sync |-> Null]
    /\ branches = <<>>
    /\ head = "master"
    /\ tasks = [t \in 1..MaxTasks |-> NoTask]
    /\ running = 0
    /\ inflight = {}
    /\ clients = {}
    /\ client_info = <<>>
    /\ connections = [c \in 1..MaxConn |-> NoConnection]
    /\ nextConn = 1
    /\ bcast = NoBroadcast
    /\ message_handlers = {}
    /\ wire = NoWire
    /\ call = NoCall

NextRebuild ==
    \/ Startup
    \/ StartupFails
    \/ Shutdown
    \/ DeleteSkill

SpecRebuild == InitRebuild /\ [][NextRebuild]_vars

(***************************************************************************)
(* main.py sync_skills and client/agent.py sync                            *)
(***************************************************************************)
\* sync_skills: reads get_all_skills() and answers with three empty lists
SyncSkillsHandler(request, via) ==
    /\ pc = "serving"
    /\ LET all_skills == get_all_skills
       IN  last' = IF Unavailable({"vector_store"})
                   THEN [Idle EXCEPT !.op = "sync", !.via = via,
                                     !.request = request,
                                     !.cursor_before = agent.next_sync,
                                     !.outcome = "error503"]
                   ELSE [Idle EXCEPT !.op = "sync", !.via = via,
                                     !.request = request,
                                     !.response = SyncResponse({}, {}, {}),
                                     !.index_before = all_skills,
                                     !.cursor_before = agent.next_sync,
                                     !.outcome = "ok"]

\* a POST sent straight to the sync endpoint
SyncSkills ==
    /\ \E last_sync \in {Null} \cup 0..MaxClock, local \in SUBSET (1..MaxId) :
         SyncSkillsHandler(SyncRequest("direct", last_sync, local), "direct")
    /\ UNCHANGED <<app, bare_mode, collection, persisted, repo_exists, skills,
                   metadata, commits, nextId, issued, deleted, events,
                   untouched>>

\* httpx encodes json=request.model_dump() with json.dumps, which raises
\* TypeError on the datetime that model_dump() keeps in last_sync
JsonSerializable(request) == request.last_sync = Null

\* SkillAgent.sync: builds the request from _last_sync and the keys of
\* _skills_cache, posts it, then sets _last_sync from the agent's own clock
AgentSync ==
    /\ LET request == SyncRequest(AgentName, agent.last_sync,
                                  agent.skills_cache)
       IN  IF pc = "serving" /\ JsonSerializable(request)
           THEN /\ SyncSkillsHandler(request, "sdk")
                /\ agent' = IF Unavailable({"vector_store"}) THEN agent
                            ELSE [agent EXCEPT !.last_sync = agent_now,
                                               !.next_sync = now]
           ELSE /\ last' = [Idle EXCEPT !.op = "sync", !.via = "sdk",
                                        !.request = request,
                                        !.cursor_before = agent.next_sync,
                                        !.outcome = "request_failed"]
                /\ UNCHANGED agent
    /\ UNCHANGED <<app, bare_mode, collection, persisted, repo_exists, skills,
                   metadata, commits, nextId, issued, deleted, events,
                   now, agent_now, repoVars, loopVars, hubVars, sdkVars>>

\* time passes on the coordinator's host
Tick ==
    /\ now < MaxClock
    /\ now' = now + 1
    /\ UNCHANGED <<app, bare_mode, collection, persisted, repo_exists, skills,
                   metadata, commits, nextId, issued, deleted, events, last,
                   agent_now, agent, repoVars, loopVars, hubVars, sdkVars>>

\* time passes on the agent's host
AgentTick ==
    /\ agent_now < MaxClock
    /\ agent_now' = agent_now + 1
    /\ UNCHANGED <<app, bare_mode, collection, persisted, repo_exists, skills,
                   metadata, commits, nextId, issued, deleted, events, last,
                   now, agent, repoVars, loopVars, hubVars, sdkVars>>

\* one run of the coordinator from its startup, serving creates, deletes
\* and sync requests while both clocks advance
NextSync ==
    \/ Startup
    \/ CreateSkill
    \/ DeleteSkill
    \/ SyncSkills
    \/ AgentSync
    \/ Tick
    \/ AgentTick

SpecSync == Init /\ [][NextSync]_vars

(***************************************************************************)
(* The GitManager used on its own: initialize, add_skill, create_branch    *)
(* and merge_branch called by a program that holds the manager             *)
(***************************************************************************)
BranchNames == {"master", "dev"}

\* what the mutating methods of the manager can change
StoreState == <<skills, metadata, commits, branches, head>>

\* initialize: load the repository, or create it (with the initial commit
\* when it has a working tree)
GmInitialize ==
    /\ repo_exists' = TRUE
    /\ disk' = initialize(disk, commits, bare_mode).disk
    /\ commits' = initialize(disk, commits, bare_mode).commits
    /\ last' = [Idle EXCEPT !.op = "initialize", !.via = "git",
                            !.existed = initialize(disk, commits, bare_mode).loaded,
                            !.store_before = <<disk, commits>>,
                            !.outcome = "ok"]
    /\ UNCHANGED <<app, bare_mode, collection, persisted, skills, metadata,
                   nextId, issued, deleted, events,
                   clockVars, branches, head, loopVars, hubVars, sdkVars>>

GmAddSkill ==
    /\ repo_exists
    /\ nextId <= MaxId
    /\ \E request \in Requests, failAt \in GitFailPoints :
         LET skill == Skill(nextId, request.metadata, "active",
                            request.metadata.author)
             g == git_add_skill(skill, request.code, failAt)
         IN  /\ skills' = g.skills
             /\ metadata' = g.metadata
             /\ commits' = g.commits
             /\ last' = [Idle EXCEPT !.op = "add_skill", !.via = "git",
                            !.id = nextId,
                            !.store_before = StoreState,
                            !.committed = ~g.raised,
                            !.outcome = IF ~g.raised THEN "ok"
                                        ELSE IF bare_mode THEN "ValueError"
                                        ELSE "OSError"]
    /\ nextId' = nextId + 1
    /\ UNCHANGED <<app, bare_mode, collection, persisted, repo_exists, issued,
                   deleted, events, untouched>>

\* the repository a branch method leaves behind
Leaves(R) ==
    /\ skills' = R.skills
    /\ metadata' = R.metadata
    /\ commits' = R.commits
    /\ branches' = R.branches
    /\ head' = R.head
    /\ UNCHANGED disk

GmCreateBranch ==
    /\ repo_exists
    /\ \E branch_name \in BranchNames, from_branch \in BranchNames :
         LET r == create_branch(Repo, branch_name, from_branch)
         IN  /\ Leaves(r.repo)
             /\ last' = [Idle EXCEPT !.op = "create_branch", !.via = "git",
                            !.store_before = StoreState,
                            !.outcome = r.outcome]
    /\ UNCHANGED <<app, bare_mode, collection, persisted, repo_exists, nextId,
                   issued, deleted, events, clockVars, loopVars, sdkVars,
                   hubVars>>

GmMergeBranch ==
    /\ repo_exists
    /\ \E source_branch \in BranchNames, target_branch \in BranchNames :
         LET r == merge_branch(Repo, source_branch, target_branch)
         IN  /\ Leaves(r.repo)
             /\ last' = [Idle EXCEPT !.op = "merge_branch", !.via = "git",
                            !.store_before = StoreState,
                            !.outcome = r.outcome]
    /\ UNCHANGED <<app, bare_mode, collection, persisted, repo_exists, nextId,
                   issued, deleted, events, clockVars, loopVars, sdkVars,
                   hubVars>>

NextGit ==
    \/ GmInitialize
    \/ GmAddSkill
    \/ GmCreateBranch
    \/ GmMergeBranch

SpecGit == Init /\ [][NextGit]_vars

(***************************************************************************)
(* The sidecar of a Skill with every field of shared/models.py: what       *)
(* GitManager.add_skill writes and what rebuild_index makes of it          *)
(***************************************************************************)
\* Skill and SkillMetadata with all their fields; a dict is the set of its
\* items, created_by None is ""
FullSkill(id, name, status, parameters, examples, usage_count, rating) ==
    [id |-> id,
     metadata |-> [name |-> name, version |-> "1.0.0", description |-> "",
                   author |-> "bob", tags |-> <<CsvTag>>,
                   dependencies |-> <<>>, parameters |-> parameters,
                   return_type |-> Null, examples |-> examples],
     status |-> status, created_at |-> now, updated_at |-> now,
     created_by |-> "bob", usage_count |-> usage_count, rating |-> rating]

\* the skills committed: one with the defaults of the model classes, one
\* that has been used, rated and documented, one that is deprecated
FullSkills ==
    { FullSkill(101, <<"a">>, "active", {}, <<>>, 0, 5),
      FullSkill(102, <<"b">>, "active", {<<"x", "int">>}, <<"f(1)">>, 3, 4),
      FullSkill(103, <<"c">>, "deprecated", {}, <<>>, 0, 5) }

\* datetime.isoformat(): the text of a datetime
isoformat(t) == <<"iso", t>>

\* meta_data: the dict add_skill dumps into metadata/<stem>.json
meta_data(skill) ==
    [id           |-> skill.id,
     name         |-> skill.metadata.name,
     version      |-> skill.metadata.version,
     description  |-> skill.metadata.description,
     author       |-> skill.metadata.author,
     tags         |-> skill.metadata.tags,
     dependencies |-> skill.metadata.dependencies,
     created_at   |-> IF skill.created_at # Null
                      THEN isoformat(skill.created_at) ELSE Null,
     updated_at   |-> IF skill.updated_at # Null
                      THEN isoformat(skill.updated_at) ELSE Null,
     created_by   |-> skill.created_by,
     status       |-> skill.status]

\* SkillMetadata(**meta_dict): the keys that are no field of the class are
\* ignored, the fields that are no key of the dict get their defaults
SkillMetadataFrom(meta_dict) ==
    [name |-> meta_dict.name, version |-> meta_dict.version,
     description |-> meta_dict.description, author |-> meta_dict.author,
     tags |-> meta_dict.tags, dependencies |-> meta_dict.dependencies,
     parameters |-> {}, return_type |-> Null, examples |-> <<>>]

\* the Skill rebuild_index builds from a sidecar: a generated id, status
\* ACTIVE, both timestamps utcnow(), the other fields at their defaults
SkillFromSidecar(meta_dict, id) ==
    [id |-> id, metadata |-> SkillMetadataFrom(meta_dict),
     status |-> "active", created_at |-> now, updated_at |-> now,
     created_by |-> "", usage_count |-> 0, rating |-> 5]

\* GitManager.add_skill for a Skill with every field
GmAddFullSkill ==
    /\ repo_exists
    /\ Len(commits) <= MaxId
    /\ \E skill \in FullSkills :
         LET stem == sanitize_filename(skill.metadata.name)
         IN  IF bare_mode
             THEN /\ UNCHANGED <<skills, metadata, commits>>
                  /\ last' = [Idle EXCEPT !.op = "add_skill", !.via = "git",
                                 !.id = skill.id, !.outcome = "ValueError"]
             ELSE /\ skills' = Put(skills, stem, ValidPy)
                  /\ metadata' = Put(metadata, stem, meta_data(skill))
                  /\ commits' = Append(commits,
                                    [stem |-> stem, skill_id |-> skill.id,
                                     author |-> Actor(skill.metadata.author),
                                     code |-> ValidPy,
                                     sidecar |-> meta_data(skill)])
                  /\ last' = [Idle EXCEPT !.op = "add_skill", !.via = "git",
                                 !.id = skill.id, !.committed = TRUE,
                                 !.outcome = "ok"]
    /\ UNCHANGED <<app, bare_mode, collection, persisted, repo_exists, nextId,
                   issued, deleted, events, untouched>>

\* rebuild_index over the files of the repository, every file indexed
RebuildIndex ==
    /\ repo_exists
    /\ ~bare_mode
    /\ DOMAIN skills # {}
    /\ nextId + Cardinality(DOMAIN skills) <= MaxId + 1
    /\ \E order \in Orders(DOMAIN skills), pok \in BOOLEAN :
         LET built == [i \in 1..Len(order) |->
                          SkillFromSidecar(metadata[order[i]], nextId + i - 1)]
             added == {IndexEntry(built[i], skills[order[i]]) :
                          i \in 1..Len(order)}
         IN  /\ collection' = collection \cup added
             /\ persisted' = persist(collection \cup added, pok)
             /\ nextId' = nextId + Len(order)
             /\ last' = [Idle EXCEPT !.op = "rebuild_index",
                            !.rebuilt = TRUE,
                            !.restored = {[sidecar |-> metadata[order[i]],
                                           skill |-> built[i]] :
                                             i \in 1..Len(order)},
                            !.outcome = "ok"]
    /\ UNCHANGED <<app, bare_mode, repo_exists, skills, metadata, commits,
                   issued, deleted, events, untouched>>

NextSidecar ==
    \/ GmInitialize
    \/ GmAddFullSkill
    \/ RebuildIndex

SpecSidecar == Init /\ [][NextSidecar]_vars

\* GitManager(repo_path, bare_mode).initialize(): a manager constructed over
\* the same path, in either mode, and initialized, as the lifespan does on
\* every start.  A repository created under a path that holds one of the
\* other mode lies beside it; `commits` stays the log of the repository
\* with the working tree, a bare repository never gets a commit.
GmOpen ==
    \E bare \in BOOLEAN :
        /\ bare_mode' = bare
        /\ repo_exists' = TRUE
        /\ disk' = initialize(disk, commits, bare).disk
        /\ commits' = initialize(disk, commits, bare).commits
        /\ last' = [Idle EXCEPT !.op = "initialize", !.via = "lifespan",
                                !.existed = initialize(disk, commits, bare).loaded,
                                !.store_before = <<disk, commits>>,
                                !.outcome = "ok"]
        /\ UNCHANGED <<app, collection, persisted, skills, metadata,
                       nextId, issued, deleted, events,
                       clockVars, branches, head, loopVars, hubVars, sdkVars>>

NextInit ==
    \/ GmOpen
    \/ GmInitialize
    \/ GmAddSkill

SpecInit == Init /\ [][NextInit]_vars

(***************************************************************************)
(* The handlers of main.py as tasks of the one asyncio event loop of the   *)
(* process, one step per adapter call entered or returned.  A task keeps   *)
(* the loop until it awaits or ends.                                       *)
(***************************************************************************)
\* handlers that would hand each adapter call to a worker and await it
AwaitsAdapterCalls(position) ==
    position \in {"in_add_skill", "in_git_add_skill", "in_delete_skill",
                  "in_update_delete", "in_update_add"}

\* the positions at which a handler awaits: create_skill, delete_skill and
\* the methods of VectorStore and GitManager hold no await
Awaits(position) == FALSE

\* who holds the loop after task t has moved to `position`
LoopAfter(t, position) ==
    IF position = "done" \/ Awaits(position) THEN 0 ELSE t

CanRun(t) == running \in {0, t}

Call(t, handle, method) == [task |-> t, handle |-> handle, method |-> method]

TaskSkill(t) ==
    Skill(tasks[t].id, tasks[t].request.metadata, "active",
          tasks[t].request.metadata.author)

\* a request arrives and waits for the loop in the first free slot
Receive ==
    /\ pc = "serving"
    /\ \E t \in 1..MaxTasks, kind \in {"create", "delete", "update"} :
         /\ tasks[t].pc = "none"
         /\ \A u \in 1..(t - 1) : tasks[u].pc # "none"
         /\ tasks' = [tasks EXCEPT ![t] = [NoTask EXCEPT !.kind = kind,
                                                         !.pc = "received"]]
    /\ UNCHANGED <<app, bare_mode, collection, persisted, repo_exists, skills,
                   metadata, commits, nextId, issued, deleted, events, last,
                   clockVars, repoVars, hubVars, sdkVars, running, inflight>>

\* create_skill up to the entry of vector_store.add_skill
CreateEntersIndex(t) ==
    /\ tasks[t].kind = "create"
    /\ tasks[t].pc = "received"
    /\ CanRun(t)
    /\ nextId <= MaxId
    /\ \E request \in Requests :
         tasks' = [tasks EXCEPT ![t].pc = "in_add_skill", ![t].id = nextId,
                                ![t].request = request]
    /\ nextId' = nextId + 1
    /\ inflight' = inflight \cup {Call(t, "index", "add_skill")}
    /\ running' = LoopAfter(t, "in_add_skill")
    /\ UNCHANGED <<app, bare_mode, collection, persisted, repo_exists, skills,
                   metadata, commits, issued, deleted, events, last,
                   clockVars, repoVars, hubVars, sdkVars>>

\* vector_store.add_skill returns or raises
CreateIndexReturns(t) ==
    /\ tasks[t].pc = "in_add_skill"
    /\ CanRun(t)
    /\ \E fault \in BOOLEAN, pok \in BOOLEAN :
         LET r == add_skill(collection, TaskSkill(t), tasks[t].request.code,
                            fault)
             position == IF r.outcome = "ok" THEN "indexed" ELSE "done"
         IN  /\ collection' = r.coll
             /\ persisted' = IF r.outcome = "ok" THEN persist(r.coll, pok)
                             ELSE persisted
             /\ tasks' = [tasks EXCEPT ![t].pc = position]
             /\ running' = LoopAfter(t, position)
    /\ inflight' = inflight \ {Call(t, "index", "add_skill")}
    /\ UNCHANGED <<app, bare_mode, repo_exists, skills, metadata, commits,
                   nextId, issued, deleted, events, last, clockVars,
                   repoVars, hubVars, sdkVars>>

\* create_skill from the return of the index to the entry of
\* git_manager.add_skill, or to its end on a bare repository
CreateEntersGit(t) ==
    /\ tasks[t].pc = "indexed"
    /\ CanRun(t)
    /\ LET position == IF CommitStageRuns(bare_mode) THEN "in_git_add_skill"
                       ELSE "done"
       IN  /\ tasks' = [tasks EXCEPT ![t].pc = position]
           /\ running' = LoopAfter(t, position)
           /\ inflight' = IF position = "done" THEN inflight
                          ELSE inflight \cup {Call(t, "store", "add_skill")}
    /\ UNCHANGED <<app, bare_mode, collection, persisted, repo_exists, skills,
                   metadata, commits, nextId, issued, deleted, events, last,
                   clockVars, repoVars, hubVars, sdkVars>>

\* git_manager.add_skill returns or raises; the handler answers
CreateGitReturns(t) ==
    /\ tasks[t].pc = "in_git_add_skill"
    /\ CanRun(t)
    /\ \E failAt \in GitFailPoints :
         LET g == git_add_skill(TaskSkill(t), tasks[t].request.code, failAt)
         IN  /\ skills' = g.skills
             /\ metadata' = g.metadata
             /\ commits' = g.commits
    /\ tasks' = [tasks EXCEPT ![t].pc = "done"]
    /\ running' = LoopAfter(t, "done")
    /\ inflight' = inflight \ {Call(t, "store", "add_skill")}
    /\ UNCHANGED <<app, bare_mode, collection, persisted, repo_exists, nextId,
                   issued, deleted, events, last, clockVars, repoVars,
                   hubVars, sdkVars>>

\* delete_skill up to the entry of vector_store.delete_skill
DeleteEntersIndex(t) ==
    /\ tasks[t].kind = "delete"
    /\ tasks[t].pc = "received"
    /\ CanRun(t)
    /\ \E skill_id \in 1..MaxId :
         tasks' = [tasks EXCEPT ![t].pc = "in_delete_skill", ![t].id = skill_id]
    /\ inflight' = inflight \cup {Call(t, "index", "delete_skill")}
    /\ running' = LoopAfter(t, "in_delete_skill")
    /\ UNCHANGED <<app, bare_mode, collection, persisted, repo_exists, skills,
                   metadata, commits, nextId, issued, deleted, events, last,
                   clockVars, repoVars, hubVars, sdkVars>>

\* vector_store.delete_skill returns; the handler answers
DeleteIndexReturns(t) ==
    /\ tasks[t].pc = "in_delete_skill"
    /\ CanRun(t)
    /\ \E fault \in BOOLEAN, pok \in BOOLEAN :
         LET d == delete_skill(collection, tasks[t].id, fault)
         IN  /\ collection' = d.coll
             /\ persisted' = IF d.success THEN persist(d.coll, pok)
                             ELSE persisted
    /\ tasks' = [tasks EXCEPT ![t].pc = "done"]
    /\ running' = LoopAfter(t, "done")
    /\ inflight' = inflight \ {Call(t, "index", "delete_skill")}
    /\ UNCHANGED <<app, bare_mode, repo_exists, skills, metadata, commits,
                   nextId, issued, deleted, events, last, clockVars,
                   repoVars, hubVars, sdkVars>>

\* a task of the loop enters vector_store.update_skill
UpdateEntersIndex(t) ==
    /\ tasks[t].kind = "update"
    /\ tasks[t].pc = "received"
    /\ CanRun(t)
    /\ \E skill_id \in 1..MaxId, request \in Requests :
         tasks' = [tasks EXCEPT ![t].pc = "in_update_delete",
                                ![t].id = skill_id, ![t].request = request]
    /\ inflight' = inflight \cup {Call(t, "index", "update_skill")}
    /\ running' = LoopAfter(t, "in_update_delete")
    /\ UNCHANGED <<app, bare_mode, collection, persisted, repo_exists, skills,
                   metadata, commits, nextId, issued, deleted, events, last,
                   clockVars, repoVars, hubVars, sdkVars>>

\* update_skill: the delete of the old entry, an exception of it swallowed
UpdateDeletes(t) ==
    /\ tasks[t].pc = "in_update_delete"
    /\ CanRun(t)
    /\ \E delFault \in BOOLEAN :
         collection' = IF delFault THEN collection
                       ELSE CollectionDelete(collection, DocId(tasks[t].id))
    /\ tasks' = [tasks EXCEPT ![t].pc = "in_update_add"]
    /\ running' = LoopAfter(t, "in_update_add")
    /\ UNCHANGED <<app, bare_mode, persisted, repo_exists, skills, metadata,
                   commits, nextId, issued, deleted, events, last, clockVars,
                   repoVars, hubVars, sdkVars, inflight>>

\* update_skill: add_skill of the new entry, then the return
UpdateIndexReturns(t) ==
    /\ tasks[t].pc = "in_update_add"
    /\ CanRun(t)
    /\ \E addFault \in BOOLEAN, pok \in BOOLEAN :
         LET r == add_skill(collection, TaskSkill(t), tasks[t].request.code,
                            addFault)
         IN  /\ collection' = r.coll
             /\ persisted' = IF r.outcome = "ok" THEN persist(r.coll, pok)
                             ELSE persisted
    /\ tasks' = [tasks EXCEPT ![t].pc = "done"]
    /\ running' = LoopAfter(t, "done")
    /\ inflight' = inflight \ {Call(t, "index", "update_skill")}
    /\ UNCHANGED <<app, bare_mode, repo_exists, skills, metadata, commits,
                   nextId, issued, deleted, events, last, clockVars,
                   repoVars, hubVars, sdkVars>>

NextLoop ==
    \/ Startup
    \/ Receive
    \/ \E t \in 1..MaxTasks : CreateEntersIndex(t)
    \/ \E t \in 1..MaxTasks : CreateIndexReturns(t)
    \/ \E t \in 1..MaxTasks : CreateEntersGit(t)
    \/ \E t \in 1..MaxTasks : CreateGitReturns(t)
    \/ \E t \in 1..MaxTasks : DeleteEntersIndex(t)
    \/ \E t \in 1..MaxTasks : DeleteIndexReturns(t)
    \/ \E t \in 1..MaxTasks : UpdateEntersIndex(t)
    \/ \E t \in 1..MaxTasks : UpdateDeletes(t)
    \/ \E t \in 1..MaxTasks : UpdateIndexReturns(t)

SpecLoop == Init /\ [][NextLoop]_vars

(***************************************************************************)
(* server/websocket_server.py: the Notification Hub.  Each connection has  *)
(* a handler task; broadcast creates one _send_to_client coroutine per key *)
(* of self.clients and awaits them in asyncio.gather.                      *)
(***************************************************************************)
\* what the hub leaves alone
offHub ==
    <<app, bare_mode, collection, persisted, repo_exists, skills, metadata,
      commits, nextId, issued, deleted, events, last, clockVars, repoVars,
      loopVars, wireVars, sdkVars>>

\* a broadcast whose loop over self.clients would await inside the loop
IterationAwaitsSend == TRUE

\* the `for client_id in self.clients` of broadcast holds no await
IterationAwaits == FALSE

\* the other tasks of the loop can run
OthersRun == bcast.phase = "iterating" => IterationAwaits

\* a broadcast that leaves nobody out
ExcludedNever(client_id, exclude) == FALSE

\* `if client_id != exclude` of broadcast, negated
Excluded(client_id, exclude) == client_id = exclude

\* `if client_id not in self.clients: return` of _send_to_client, negated
ShouldSend(client_id, registry) == client_id \in registry

\* _handle_connection up to its first await: generate the client id,
\* register the connection in both maps
HubConnect ==
    /\ OthersRun
    /\ nextConn <= MaxConn
    /\ clients' = clients \cup {nextConn}
    /\ client_info' = Put(client_info, nextConn, [agent_name |-> ""])
    /\ connections' = [connections EXCEPT
                          ![nextConn] = [handler |-> "welcome",
                                         socket |-> "open"]]
    /\ nextConn' = nextConn + 1
    /\ UNCHANGED <<offHub, bcast>>

\* an unregister that leaves the entry of client_info behind
unregister_client_keeps_info(registry, info, client_id) ==
    [clients |-> registry \ {client_id}, client_info |-> info]

\* an unregister that leaves the entry of clients behind
unregister_client_keeps_socket(registry, info, client_id) ==
    [clients |-> registry, client_info |-> Drop(info, client_id)]

\* _unregister_client: the id leaves self.clients and self.client_info
unregister_client(registry, info, client_id) ==
    [clients |-> registry \ {client_id},
     client_info |-> Drop(info, client_id)]

\* the send of the "connected" message ends, a failure of it is swallowed;
\* the handler enters `async for message in websocket`
HubWelcomed ==
    /\ OthersRun
    /\ \E c \in 1..MaxConn :
         /\ connections[c].handler = "welcome"
         /\ connections' = [connections EXCEPT ![c].handler = "listening"]
    /\ UNCHANGED <<offHub, clients, client_info, nextConn, bcast>>

\* the peer closes the connection, or the connection breaks
PeerCloses ==
    /\ \E c \in 1..MaxConn :
         /\ connections[c].socket = "open"
         /\ connections' = [connections EXCEPT ![c].socket = "closed"]
    /\ UNCHANGED <<offHub, clients, client_info, nextConn, bcast>>

\* the handler task resumes on the closed connection: ConnectionClosed,
\* then `finally: self._unregister_client(client_id)`
HandlerEnds ==
    /\ OthersRun
    /\ \E c \in 1..MaxConn :
         /\ connections[c].handler = "listening"
         /\ connections[c].socket # "open"
         /\ LET u == unregister_client(clients, client_info, c)
            IN  /\ clients' = u.clients
                /\ client_info' = u.client_info
         /\ connections' = [connections EXCEPT ![c].handler = "gone"]
    /\ UNCHANGED <<offHub, nextConn, bcast>>

\* broadcast is called: the iteration over self.clients starts
BroadcastCalled ==
    /\ bcast.phase \in {"idle", "returned", "raised"}
    /\ \E exclude \in {NoClient} \cup 1..(nextConn - 1) :
         bcast' = [NoBroadcast EXCEPT !.phase = "iterating",
                                      !.exclude = exclude,
                                      !.at_call = clients,
                                      !.todo = clients]
    /\ UNCHANGED <<offHub, clients, client_info, connections, nextConn>>

\* the iterator of the dict raises RuntimeError when the dict has changed
\* since the iteration began
DictChanged == clients # bcast.at_call

\* one pass of the loop: the next key in insertion order, and the
\* coroutine _send_to_client(client_id, ...) for it unless it is excluded
BroadcastVisits ==
    /\ bcast.phase = "iterating"
    /\ bcast.todo # {}
    /\ LET client_id == CHOOSE c \in bcast.todo :
                            \A d \in bcast.todo : c <= d
       IN  bcast' =
             IF DictChanged THEN [bcast EXCEPT !.phase = "raised"]
             ELSE [bcast EXCEPT
                     !.todo = @ \ {client_id},
                     !.made = IF Excluded(client_id, bcast.exclude) THEN @
                              ELSE @ \cup {client_id}]
    /\ UNCHANGED <<offHub, clients, client_info, connections, nextConn>>

\* the loop ends: `if tasks: await asyncio.gather(...)`
BroadcastGathers ==
    /\ bcast.phase = "iterating"
    /\ bcast.todo = {}
    /\ bcast' = IF DictChanged THEN [bcast EXCEPT !.phase = "raised"]
                ELSE IF bcast.made = {} THEN [bcast EXCEPT !.phase = "returned"]
                ELSE [bcast EXCEPT !.phase = "gathering",
                                   !.pending = bcast.made]
    /\ UNCHANGED <<offHub, clients, client_info, connections, nextConn>>

\* one coroutine of the gather runs _send_to_client: nothing for a client
\* id that is no longer registered; else one send on the socket, which
\* raises on a closed or broken connection; the exception is logged and
\* swallowed
SendRuns ==
    /\ bcast.phase = "gathering"
    /\ \E c \in bcast.pending :
         bcast' =
           IF ShouldSend(c, clients)
           THEN [bcast EXCEPT
                   !.pending = @ \ {c},
                   !.attempts = Append(@,
                       [client |-> c,
                        registered |-> c \in clients,
                        result |-> IF connections[c].socket = "open"
                                   THEN "sent" ELSE "failed"])]
           ELSE [bcast EXCEPT !.pending = @ \ {c},
                              !.skipped = @ \cup {c}]
    /\ UNCHANGED <<offHub, clients, client_info, connections, nextConn>>

\* every coroutine has ended: gather returns, broadcast returns
BroadcastReturns ==
    /\ bcast.phase = "gathering"
    /\ bcast.pending = {}
    /\ bcast' = [bcast EXCEPT !.phase = "returned"]
    /\ UNCHANGED <<offHub, clients, client_info, connections, nextConn>>

NextHub ==
    \/ HubConnect
    \/ HubWelcomed
    \/ PeerCloses
    \/ HandlerEnds
    \/ BroadcastCalled
    \/ BroadcastVisits
    \/ BroadcastGathers
    \/ SendRuns
    \/ BroadcastReturns

SpecHub == Init /\ [][NextHub]_vars

(***************************************************************************)
(* server/websocket_server.py: the life of one connection.  The handler    *)
(* task of a connection dispatches each inbound message; every reply goes  *)
(* through _send_to_client.  websockets.serve(ping_interval, ping_timeout) *)
(* closes a connection whose pong does not arrive in time.                 *)
(***************************************************************************)
\* what the connection handlers leave alone
offConn ==
    <<app, bare_mode, collection, persisted, repo_exists, skills, metadata,
      commits, nextId, issued, deleted, events, last, clockVars, repoVars,
      loopVars, bcast, sdkVars>>

\* the text frames a peer sends
Messages ==
    { Message(FALSE, FALSE, NoType),
      Message(TRUE, FALSE, NoType),
      Message(TRUE, TRUE, NoType),
      Message(TRUE, TRUE, "ping"),
      Message(TRUE, TRUE, "register"),
      Message(TRUE, TRUE, "task"),
      Message(TRUE, TRUE, "bogus") }

\* the message types register_handler is called with
HandlerTypes == {"task", "unknown"}

\* msg_type = data.get("type", "unknown")
MsgType(message) == IF message.type = NoType THEN "unknown" ELSE message.type

\* a _send_to_client without its try/except: a failed send reaches the caller
send_to_client_raising(registry, conns, client_id) ==
    IF client_id \notin registry
    THEN [result |-> "absent", raised |-> FALSE, logged |-> TRUE,
          clients |-> registry]
    ELSE IF conns[client_id].socket = "open"
    THEN [result |-> "sent", raised |-> FALSE, logged |-> FALSE,
          clients |-> registry]
    ELSE [result |-> "failed", raised |-> TRUE, logged |-> FALSE,
          clients |-> registry]

\* _send_to_client: nothing but a warning for an id that is not in
\* self.clients; else one send on the socket, whose exception is logged
\* and swallowed
send_to_client(registry, conns, client_id) ==
    IF client_id \notin registry
    THEN [result |-> "absent", raised |-> FALSE, logged |-> TRUE,
          clients |-> registry]
    ELSE IF conns[client_id].socket = "open"
    THEN [result |-> "sent", raised |-> FALSE, logged |-> FALSE,
          clients |-> registry]
    ELSE [result |-> "failed", raised |-> FALSE, logged |-> TRUE,
          clients |-> registry]

\* a _handle_message without its two except clauses: nothing is sent for a
\* frame that cannot be parsed or for a handler or branch that raises
handle_message_uncaught(message, handlers, handler_raises) ==
    IF ~message.wellformed THEN [branch |-> "JSONDecodeError", replies |-> <<>>]
    ELSE IF ~message.is_object THEN [branch |-> "Exception", replies |-> <<>>]
    ELSE IF MsgType(message) = "ping" THEN [branch |-> "ping", replies |-> <<"pong">>]
    ELSE IF MsgType(message) = "register"
    THEN [branch |-> "register", replies |-> <<"registered">>]
    ELSE IF MsgType(message) \in handlers
    THEN IF handler_raises THEN [branch |-> "Exception", replies |-> <<>>]
         ELSE [branch |-> "handler", replies |-> <<>>]
    ELSE [branch |-> "unknown", replies |-> <<"error">>]

\* a _handle_message whose last branch only logs the unknown type
handle_message_drops(message, handlers, handler_raises) ==
    IF ~message.wellformed THEN [branch |-> "JSONDecodeError", replies |-> <<"error">>]
    ELSE IF ~message.is_object THEN [branch |-> "Exception", replies |-> <<"error">>]
    ELSE IF MsgType(message) = "ping" THEN [branch |-> "ping", replies |-> <<"pong">>]
    ELSE IF MsgType(message) = "register"
    THEN [branch |-> "register", replies |-> <<"registered">>]
    ELSE IF MsgType(message) \in handlers
    THEN IF handler_raises THEN [branch |-> "Exception", replies |-> <<"error">>]
         ELSE [branch |-> "handler", replies |-> <<>>]
    ELSE [branch |-> "unknown", replies |-> <<>>]

\* _handle_message: the branch taken and the types of the replies it sends
\* to the sender.  A frame json.loads rejects is answered in the except of
\* JSONDecodeError; a JSON value that is no object has no .get and is
\* answered in the except of Exception, as is a custom handler that raises.
handle_message(message, handlers, handler_raises) ==
    IF ~message.wellformed THEN [branch |-> "JSONDecodeError", replies |-> <<"error">>]
    ELSE IF ~message.is_object THEN [branch |-> "Exception", replies |-> <<"error">>]
    ELSE IF MsgType(message) = "ping" THEN [branch |-> "ping", replies |-> <<"pong">>]
    ELSE IF MsgType(message) = "register"
    THEN [branch |-> "register", replies |-> <<"registered">>]
    ELSE IF MsgType(message) \in handlers
    THEN IF handler_raises THEN [branch |-> "Exception", replies |-> <<"error">>]
         ELSE [branch |-> "handler", replies |-> <<>>]
    ELSE [branch |-> "unknown", replies |-> <<"error">>]

\* one call of _send_to_client as the hub records it
Attempt(client_id, msg_type, r) ==
    [to |-> client_id, type |-> msg_type, result |-> r.result,
     raised |-> r.raised, logged |-> r.logged,
     registered |-> client_id \in clients,
     removed |-> connections[client_id].handler \in {"gone", "failed"}]

\* a connection is accepted
ConnAccept == nextConn <= MaxPeers /\ HubConnect

\* register_handler
RegisterHandler ==
    /\ \E msg_type \in HandlerTypes :
         message_handlers' = message_handlers \cup {msg_type}
    /\ message_handlers' # message_handlers
    /\ UNCHANGED <<offConn, clients, client_info, connections, nextConn, wire>>

\* the keepalive of websockets.serve: no pong within ping_timeout, the
\* library fails the connection
KeepaliveTimeout ==
    /\ \E c \in 1..MaxConn :
         /\ connections[c].socket = "open"
         /\ connections' = [connections EXCEPT ![c].socket = "timed_out"]
    /\ UNCHANGED <<offConn, clients, client_info, nextConn, wireVars>>

\* self.client_info[client_id]["agent_name"] = agent_name of the register
\* branch: a client id with no record in self.client_info is a KeyError,
\* answered in the except of Exception
register_agent(handled, info, client_id) ==
    IF handled.branch = "register" /\ client_id \notin DOMAIN info
    THEN [branch |-> "KeyError", replies |-> <<"error">>]
    ELSE handled

\* `async for message in websocket` yields a frame, one received before the
\* connection closed included, and _handle_message(client_id, message) runs
HandleMessage ==
    /\ \E c \in 1..MaxConn, message \in Messages, handler_raises \in BOOLEAN :
         /\ connections[c].handler = "listening"
         /\ handler_raises => MsgType(message) \in message_handlers
         /\ LET h == register_agent(
                         handle_message(message, message_handlers,
                                        handler_raises),
                         client_info, c)
                s == send_to_client(clients, connections, c)
            IN  /\ client_info' =
                      IF h.branch = "register"
                      THEN [client_info EXCEPT ![c].agent_name = "agent"]
                      ELSE client_info
                /\ wire' = [op |-> "message", client |-> c,
                            message |-> message,
                            handlers |-> message_handlers,
                            branch |-> h.branch,
                            replies |-> [i \in DOMAIN h.replies |->
                                            Attempt(c, h.replies[i], s)],
                            raised |-> \E i \in DOMAIN h.replies : s.raised,
                            registry_kept |-> (s.clients = clients)]
                /\ clients' = s.clients
    /\ UNCHANGED <<offConn, connections, nextConn, message_handlers>>

\* _send_to_client(client_id, ...) called for any client id: by a coroutine
\* of broadcast, by a custom handler, for an id that was never given out,
\* is registered, or has been unregistered
SendToClient ==
    /\ \E client_id \in 1..MaxConn :
         LET s == send_to_client(clients, connections, client_id)
         IN  /\ wire' = [NoWire EXCEPT
                            !.op = "send", !.client = client_id,
                            !.replies = <<Attempt(client_id, "event", s)>>,
                            !.raised = s.raised,
                            !.registry_kept = (s.clients = clients)]
             /\ clients' = s.clients
    /\ UNCHANGED <<offConn, client_info, connections, nextConn,
                   message_handlers>>

\* an exception other than ConnectionClosed leaves the handler task (the
\* task is cancelled, the protocol fails): `finally` unregisters the client
\* and the library closes the connection of the handler that returned
HandlerLoopRaises ==
    /\ \E c \in 1..MaxConn :
         /\ connections[c].handler \in {"welcome", "listening"}
         /\ connections[c].socket = "open"
         /\ LET u == unregister_client(clients, client_info, c)
            IN  /\ clients' = u.clients
                /\ client_info' = u.client_info
         /\ connections' = [connections EXCEPT
                               ![c] = [handler |-> "failed", socket |-> "closed"]]
    /\ UNCHANGED <<offConn, nextConn, wireVars>>

\* stop on a running hub: client.close() for every socket of self.clients,
\* gathered with return_exceptions=True; neither self.clients nor
\* self.client_info is written, the handlers unregister as they end
HubStop ==
    /\ connections' =
          [c \in DOMAIN connections |->
              IF c \in clients /\ connections[c].socket = "open"
              THEN [connections[c] EXCEPT !.socket = "closed"]
              ELSE connections[c]]
    /\ wire' = [NoWire EXCEPT !.op = "stop"]
    /\ UNCHANGED <<offConn, clients, client_info, nextConn, message_handlers>>

NextConn ==
    \/ ConnAccept
    \/ HubWelcomed
    \/ PeerCloses
    \/ KeepaliveTimeout
    \/ HandlerLoopRaises
    \/ HandlerEnds
    \/ RegisterHandler
    \/ HandleMessage
    \/ SendToClient

\* the hub under the default configuration (bare_mode: True)
InitConn == Init /\ bare_mode = TRUE

SpecConn == InitConn /\ [][NextConn]_vars

\* the registry of the hub: connections accepted, messages handled, the
\* connections ended from either side, and the hub stopped
NextRegistry ==
    \/ ConnAccept
    \/ HubWelcomed
    \/ PeerCloses
    \/ KeepaliveTimeout
    \/ HandlerLoopRaises
    \/ HandlerEnds
    \/ HandleMessage
    \/ HubStop

SpecRegistry == InitConn /\ [][NextRegistry]_vars

\* the life of the connections alone: accepted, closed from either side,
\* unregistered, and sent to at any moment
NextLife ==
    \/ ConnAccept
    \/ HubWelcomed
    \/ PeerCloses
    \/ KeepaliveTimeout
    \/ HandlerLoopRaises
    \/ HandlerEnds
    \/ SendToClient

SpecLife == InitConn /\ [][NextLife]_vars

\* the event loop runs every task that is ready: a handler that can leave
\* its welcome send or its `async for` does so
FairLife ==
    /\ SpecLife
    /\ WF_vars(HubWelcomed)
    /\ WF_vars(HandlerEnds)

(***************************************************************************)
(* client/agent.py: SkillAgent._request, the loop every SDK method sends   *)
(* its request through.  One attempt is one self._client.request(...),     *)
(* raise_for_status() and response.json().                                 *)
(***************************************************************************)
\* self.max_retries = 3
max_retries == 3

\* time.sleep(1)
Backoff == 1

\* the SDK methods that go through _request
Methods == {"get_skill", "upload_skill", "delete_skill", "sync"}

\* the exceptions of the transport: the coordinator is unreachable or slow
TransportErrors == {"ConnectError", "ReadTimeout"}

\* the HTTP statuses raise_for_status turns into HTTPStatusError
ErrorStatuses == {"404", "409", "422", "500", "503"}

\* what one attempt of a method can meet.  A body that json.dumps cannot
\* encode makes self._client.request raise TypeError before anything is
\* sent, on every attempt.  The coordinator of this repository answers 404
\* on get_skill only and never answers 409; both are kept as answers of the
\* peer for every method.
Outcomes(method, encodable) ==
    IF ~encodable THEN {"TypeError"}
    ELSE {"200"} \cup ErrorStatuses \cup TransportErrors

\* a loop that never gives up in its except clause
LastAttemptNever(attempt) == FALSE

\* `if attempt == self.max_retries - 1` (attempt counts from 0)
LastAttempt(attempt) == attempt = max_retries - 1

\* one pass of the try of _request: what the pass does with the outcome
request_step(attempt, outcome) ==
    IF outcome = "200" THEN [do |-> "return", error |-> "none"]
    ELSE IF outcome \in ErrorStatuses
    THEN [do |-> "raise",
          error |-> IF outcome = "404" THEN "not_found"
                    ELSE IF outcome = "409" THEN "conflict"
                    ELSE "http_error"]
    ELSE IF LastAttempt(attempt) THEN [do |-> "raise", error |-> "request_failed"]
    ELSE [do |-> "sleep", error |-> "none"]

\* an SDK method is called.  upload_skill validates the code first and
\* raises ValueError without a request; sync sends last_sync, a datetime
\* after the first sync, through json=request.model_dump()
SdkCall ==
    /\ call.phase \in {"idle", "returned", "raised"}
    /\ \E method \in Methods, valid \in BOOLEAN, encodable \in BOOLEAN :
         /\ ~valid => method = "upload_skill"
         /\ ~encodable => method = "sync"
         /\ call' = IF ~valid
                    THEN [NoCall EXCEPT !.method = method, !.phase = "raised",
                                        !.error = "ValueError"]
                    ELSE [NoCall EXCEPT !.method = method,
                                        !.encodable = encodable,
                                        !.phase = "trying"]
    /\ UNCHANGED <<app, bare_mode, collection, persisted, repo_exists, skills,
                   metadata, commits, nextId, issued, deleted, events, last,
                   clockVars, repoVars, loopVars, hubVars>>

\* one attempt: the request, raise_for_status, response.json(), and the
\* except clause the outcome lands in
SdkAttempt ==
    /\ call.phase = "trying"
    /\ \E outcome \in Outcomes(call.method, call.encodable) :
         LET r == request_step(call.attempt, outcome)
         IN  call' = [call EXCEPT
                        !.log = Append(@, outcome),
                        !.error = r.error,
                        !.phase = IF r.do = "return" THEN "returned"
                                  ELSE IF r.do = "raise" THEN "raised"
                                  ELSE "sleeping"]
    /\ UNCHANGED <<app, bare_mode, collection, persisted, repo_exists, skills,
                   metadata, commits, nextId, issued, deleted, events, last,
                   clockVars, repoVars, loopVars, hubVars>>

\* time.sleep(1) ends and the for loop goes on; a loop that runs out of
\* attempts falls off its end and _request returns None
SdkBackoffEnds ==
    /\ call.phase = "sleeping"
    /\ call' = [call EXCEPT
                   !.slept = @ + Backoff,
                   !.attempt = @ + 1,
                   !.phase = IF call.attempt + 1 < max_retries THEN "trying"
                             ELSE "returned"]
    /\ UNCHANGED <<app, bare_mode, collection, persisted, repo_exists, skills,
                   metadata, commits, nextId, issued, deleted, events, last,
                   clockVars, repoVars, loopVars, hubVars>>

NextSdk ==
    \/ SdkCall
    \/ SdkAttempt
    \/ SdkBackoffEnds

SpecSdk == InitConn /\ [][NextSdk]_vars

\* the process of the agent keeps running: a request in progress is tried
\* and a sleep ends
FairSdk ==
    /\ SpecSdk
    /\ WF_vars(SdkAttempt)
    /\ WF_vars(SdkBackoffEnds)

(***************************************************************************)
(* The VectorStore used on its own: its three mutating methods called with *)
(* any skill id                                                            *)
(***************************************************************************)
VsAddSkill ==
    \E id \in 1..MaxId, request \in Requests, fault \in BOOLEAN, pok \in BOOLEAN :
        LET skill == Skill(id, request.metadata, "active", request.metadata.author)
            r == add_skill(collection, skill, request.code, fault)
        IN  /\ collection' = r.coll
            /\ persisted' = IF Persists(r.outcome) THEN persist(r.coll, pok)
                            ELSE persisted
            /\ last' = [Idle EXCEPT !.op = "add_skill", !.id = id,
                                    !.flush = Flush(Persists(r.outcome), pok),
                                    !.code = request.code, !.fault = fault,
                                    !.before = Cardinality(collection),
                                    !.existed = HasDoc(collection, DocId(id)),
                                    !.indexed = (r.outcome = "ok"),
                                    !.outcome = r.outcome]
            /\ UNCHANGED <<app, bare_mode, repo_exists, skills, metadata,
                           commits, nextId, issued, deleted, events, untouched>>

VsUpdateSkill ==
    \E id \in 1..MaxId, request \in Requests, delFault \in BOOLEAN,
       addFault \in BOOLEAN, pok \in BOOLEAN :
        LET skill == Skill(id, request.metadata, "active", request.metadata.author)
            r == update_skill(collection, skill, request.code, delFault, addFault)
        IN  /\ collection' = r.coll
            /\ persisted' = IF Persists(r.outcome) THEN persist(r.coll, pok)
                            ELSE persisted
            /\ last' = [Idle EXCEPT !.op = "update_skill", !.id = id,
                                    !.flush = Flush(Persists(r.outcome), pok),
                                    !.code = request.code,
                                    !.fault = (delFault \/ addFault),
                                    !.before = Cardinality(collection),
                                    !.existed = HasDoc(collection, DocId(id)),
                                    !.indexed = (r.outcome = "ok"),
                                    !.outcome = r.outcome]
            /\ UNCHANGED <<app, bare_mode, repo_exists, skills, metadata,
                           commits, nextId, issued, deleted, events, untouched>>

VsDeleteSkill ==
    \E id \in 1..MaxId, fault \in BOOLEAN, pok \in BOOLEAN :
        LET d == delete_skill(collection, id, fault)
            called == Persists(IF d.success THEN "ok" ELSE "error")
        IN  /\ collection' = d.coll
            /\ persisted' = IF called THEN persist(d.coll, pok) ELSE persisted
            /\ last' = [Idle EXCEPT !.op = "delete_skill", !.id = id,
                                    !.flush = Flush(called, pok),
                                    !.fault = fault, !.success = d.success,
                                    !.before = Cardinality(collection),
                                    !.existed = HasDoc(collection, DocId(id)),
                                    !.outcome = IF d.success THEN "ok" ELSE "error"]
            /\ UNCHANGED <<app, bare_mode, repo_exists, skills, metadata,
                           commits, nextId, issued, deleted, events, untouched>>

NextIndex ==
    \/ VsAddSkill
    \/ VsUpdateSkill
    \/ VsDeleteSkill

SpecIndex == Init /\ [][NextIndex]_vars

\* the VectorStore of a running coordinator, from the startup that
\* constructs it to the shutdown
ServingAdd == pc = "serving" /\ VsAddSkill

ServingUpdate == pc = "serving" /\ VsUpdateSkill

ServingDelete == pc = "serving" /\ VsDeleteSkill

NextFlush ==
    \/ Startup
    \/ Shutdown
    \/ ServingAdd
    \/ ServingUpdate
    \/ ServingDelete

SpecFlush == InitConn /\ [][NextFlush]_vars

(***************************************************************************)
(* Search and list: the where filter of VectorStore.search_skills and the  *)
(* filters list_skills applies to get_all_skills                           *)
(***************************************************************************)
CsvxTag == <<"c", "s", "v", "x">>

IoTag == <<"i", "o">>

\* a filter the caller leaves out: None, or a query parameter not given
Omitted == ""

\* the skills the index is filled with
TaggedSkills ==
    { Skill(1, SkillMetadata(<<"a">>, "bob", <<CsvTag>>), "active", "bob"),
      Skill(2, SkillMetadata(<<"b">>, "bob", <<CsvxTag>>), "active", "bob"),
      Skill(3, SkillMetadata(<<"c">>, "", <<IoTag, CsvTag>>), "active", ""),
      Skill(4, SkillMetadata(<<"d">>, "bob", <<CsvTag, IoTag>>), "deprecated", "bob") }

\* the tags filters of a search
TagFilters == {<<>>, <<CsvTag>>, <<CsvTag, IoTag>>}

\* SkillSearchRequest.top_k: ge=1, le=20, default 5
TopKs == {1, 5}

\* needle in hay, for two strings
Contains(hay, needle) ==
    \E i \in 1..(Len(hay) + 1) :
        /\ i + Len(needle) - 1 <= Len(hay)
        /\ SubSeq(hay, i, i + Len(needle) - 1) = needle

RECURSIVE Split(_)
\* s.split(",")
Split(s) ==
    IF \A i \in DOMAIN s : s[i] # ","
    THEN <<s>>
    ELSE LET i == CHOOSE k \in DOMAIN s :
                     s[k] = "," /\ \A j \in 1..(k - 1) : s[j] # ","
         IN  <<SubSeq(s, 1, i - 1)>> \o Split(SubSeq(s, i + 1, Len(s)))

\* the "tags" of a formatted result:
\* metadata.get("tags", "").split(",") if metadata.get("tags") else []
Tags(e) == IF e.tags = <<>> THEN <<>> ELSE Split(e.tags)

\* where_filter: a key for every filter that is given; the tags of the
\* request are joined into one string
where_filter(tags, author, status) ==
    [tags |-> Join(tags), author |-> author, status |-> status]

\* an entry passes the where filter: $contains on the stored tags string,
\* equality on author and on status
Matches(e, where) ==
    /\ where.tags # <<>> => Contains(e.tags, where.tags)
    /\ where.author # Omitted => e.author = where.author
    /\ where.status # Omitted => e.status = where.status

\* collection.query(n_results, where): the result lists the backend can
\* answer with, as sets; the ranking is the backend's.  An exception of the
\* embedding model or of the backend leaves the caller without a result.
query(coll, where, n_results, fault) ==
    IF fault THEN {{}}
    ELSE LET matching == {e \in coll : Matches(e, where)}
         IN  {h \in SUBSET matching :
                 Cardinality(h) = Min(n_results, Cardinality(matching))}

\* list_skills: status has the default "active"
StatusParam(status) == IF status = Omitted THEN "active" ELSE status

\* list_skills: the three list comprehensions over get_all_skills()
list_skills(all, tag, author, status) ==
    {e \in all : /\ tag # Omitted => tag \in Range(Tags(e))
                 /\ author # Omitted => e.author = author
                 /\ status # Omitted => e.status = status}

\* VectorStore.add_skill called by the running coordinator
VsAddTagged ==
    /\ "vector_store" \in adapters
    /\ \E skill \in TaggedSkills, fault \in BOOLEAN, pok \in BOOLEAN :
        LET r == add_skill(collection, skill, ValidPy, fault)
        IN  /\ collection' = r.coll
            /\ persisted' = IF r.outcome = "ok" THEN persist(r.coll, pok)
                            ELSE persisted
            /\ last' = [Idle EXCEPT !.op = "add_skill", !.id = skill.id,
                                    !.code = ValidPy, !.fault = fault,
                                    !.before = Cardinality(collection),
                                    !.existed = HasDoc(collection, DocId(skill.id)),
                                    !.indexed = (r.outcome = "ok"),
                                    !.outcome = r.outcome]
            /\ UNCHANGED <<app, bare_mode, repo_exists, skills, metadata,
                           commits, nextId, issued, deleted, events, untouched>>

\* VectorStore.search_skills
VsSearchSkills ==
    /\ "vector_store" \in adapters
    /\ \E tags \in TagFilters, author \in {Omitted, "bob"},
          status \in {Omitted, "active"}, top_k \in TopKs, fault \in BOOLEAN :
        \E hits \in query(collection, where_filter(tags, author, status),
                          top_k, fault) :
            /\ last' = [Idle EXCEPT !.op = "search_skills", !.via = "adapter",
                                    !.filter = [tags |-> tags, author |-> author,
                                                status |-> status, top_k |-> top_k],
                                    !.hits = hits, !.fault = fault,
                                    !.before = Cardinality(collection),
                                    !.outcome = IF fault THEN "error" ELSE "ok"]
            /\ UNCHANGED <<app, bare_mode, collection, persisted, repo_exists,
                           skills, metadata, commits, nextId, issued, deleted,
                           events, untouched>>

\* GET /skills
ListSkillsHandler ==
    /\ pc = "serving"
    /\ \E tag \in {Omitted, CsvTag, IoTag}, author \in {Omitted, "bob"},
          status \in {Omitted, "active", "deprecated"} :
        /\ last' = IF Unavailable({"vector_store"})
                   THEN [Idle EXCEPT !.op = "list_skills", !.via = "http",
                                     !.outcome = "error503"]
                   ELSE [Idle EXCEPT !.op = "list_skills", !.via = "http",
                            !.filter = [tags |-> IF tag = Omitted THEN <<>>
                                                 ELSE <<tag>>,
                                        author |-> author, status |-> status,
                                        top_k |-> 0],
                            !.hits = list_skills(get_all_skills, tag, author,
                                                 StatusParam(status)),
                            !.before = Cardinality(collection),
                            !.outcome = "ok"]
        /\ UNCHANGED <<app, bare_mode, collection, persisted, repo_exists,
                       skills, metadata, commits, nextId, issued, deleted,
                       events, untouched>>

\* POST /skills/search: SkillSearchRequest has the fields query, tags and
\* top_k; reading request.author raises AttributeError, and the request is
\* answered 500
SearchSkillsHandler ==
    /\ pc = "serving"
    /\ \E tags \in TagFilters, top_k \in TopKs :
        /\ last' = [Idle EXCEPT !.op = "search_skills", !.via = "http",
                        !.filter = [tags |-> tags, author |-> Omitted,
                                    status |-> Omitted, top_k |-> top_k],
                        !.before = Cardinality(collection),
                        !.outcome = IF Unavailable({"vector_store"})
                                    THEN "error503" ELSE "error500"]
        /\ UNCHANGED <<app, bare_mode, collection, persisted, repo_exists,
                       skills, metadata, commits, nextId, issued, deleted,
                       events, untouched>>

NextSearch ==
    \/ Startup
    \/ VsAddTagged
    \/ VsSearchSkills
    \/ ListSkillsHandler
    \/ SearchSkillsHandler

SpecSearch == InitConn /\ [][NextSearch]_vars

\* The restarts of the deployment: a running server is eventually shut down,
\* and a stopped one is started again and again without a failure among the
\* files of the rebuild.
FairSpec ==
    /\ Spec
    /\ WF_vars(Shutdown)
    /\ SF_vars(Startup /\ last'.failed = {})

(***************************************************************************)
(* Properties                                                              *)
(***************************************************************************)
WorkingCreate == last.op = "create" /\ ~bare_mode

\* C1: in working mode the index upsert of a write is never performed before
\* the versioned-store commit of that write has been attempted.
C1_CommitBeforeIndex ==
    WorkingCreate =>
        \A j \in DOMAIN last.stages :
            last.stages[j] = "index" =>
                \E i \in 1..(j - 1) : last.stages[i] = "commit"

\* C2: a write whose index upsert fails (the stage that follows the commit)
\* is still reported successful and its revision stays committed.
C2_IndexFailureStillSuccess ==
    (WorkingCreate /\ last.stages # <<>> /\ ~last.indexed) =>
        (last.outcome = "ok" /\ last.committed)

\* C3: a create request whose code is not valid python is rejected and leaves
\* no commit and no index entry, through the SDK and on the endpoint itself.
C3_InvalidCodeRejected ==
    (last.op = "create" /\ ~validate_skill_code(last.code, "python")) =>
        (last.outcome # "ok" /\ ~last.indexed /\ ~last.committed)

\* C4: every write whose index upsert succeeds has emitted one skill_update
\* event for its skill to the Notification Hub.
C4_WriteNotifies ==
    (last.op = "create" /\ last.indexed) =>
        Cardinality({i \in DOMAIN events :
                        events[i] = [type |-> "skill_update",
                                     skill_id |-> last.id]}) = 1

StoreIds == {metadata[stem].id : stem \in DOMAIN metadata}

IndexIds == {e.skill_id : e \in collection}

\* C5: a startup rebuild over N skill files, each with its sidecar, yields
\* exactly N index entries whose skill_id set is the set of ids in the store.
C5_RebuildCorrect ==
    (/\ last.op = "startup" /\ last.rebuilt /\ last.failed = {}
     /\ DOMAIN metadata = DOMAIN skills) =>
        (/\ Cardinality(collection) = Cardinality(DOMAIN skills)
         /\ IndexIds = StoreIds)

\* C6: the id under which a skill is in the index is an id create returned.
C6_IdNeverRecomputed ==
    pc = "serving" => IndexIds \subseteq issued

\* a skill with a committed revision that is not deleted and has no entry
Lagging(id) ==
    \E stem \in DOMAIN metadata :
        /\ metadata[stem].id = id
        /\ \E n \in DOMAIN commits : commits[n].skill_id = id
        /\ id \notin deleted
        /\ ~\E e \in collection :
               e.skill_id = id \/ e.name = metadata[stem].name

\* the rebuild of the next startup cannot run within the ids of the model
NoIdsForRebuild ==
    /\ pc = "down"
    /\ collection = {}
    /\ nextId + Cardinality(DOMAIN skills) > MaxId + 1

\* C7: under restarts, every committed skill that is not deleted eventually
\* has an entry in the index.
C7_Convergence ==
    \A id \in 1..MaxId :
        Lagging(id) ~> (~Lagging(id) \/ NoIdsForRebuild)

Names == {r.metadata.name : r \in Requests}

Absent(skill_id) ==
    /\ get_skill_by_id(skill_id) = {}
    /\ \A e \in get_all_skills : e.skill_id # skill_id
    /\ \A author \in {"", "bob"}, status \in {"", "active"} :
          \A e \in search_skills(author, status) : e.skill_id # skill_id

C9_DeleteIdempotent ==
    (last.op = "delete" /\ ~last.existed) =>
        (/\ ~last.success
         /\ last.outcome # "error500"
         /\ Cardinality(collection) = last.before)

\* C10: an upsert (update_skill) that meets no backend fault succeeds, also
\* when the id is already in the index, and leaves exactly one entry for the
\* id: the count grows by one when the id was absent and by zero otherwise.
C10_UpsertIdempotent ==
    (last.op = "update_skill" /\ ~last.fault) =>
        (/\ last.outcome = "ok"
         /\ Cardinality({e \in collection : e.id = DocId(last.id)}) = 1
         /\ Cardinality(collection) =
                last.before + (IF last.existed THEN 0 ELSE 1))

C10_Witness ==
    /\ last.op = "update_skill" /\ ~last.fault /\ last.existed
    /\ last.outcome = "ok"
    /\ Cardinality(collection) = last.before

(***************************************************************************)
(* Sync                                                                    *)
(***************************************************************************)
\* a sync request the coordinator has answered
Synced == last.op = "sync" /\ last.outcome = "ok"

\* the skill ids of the index entries the sync handler found
LiveAtSync == {e.skill_id : e \in last.index_before}

\* C11: a sync with last_sync = null and an empty local list returns every
\* skill of the live index in new, and empty updated and deleted lists.
C11_FullSync ==
    (Synced /\ last.request.last_sync = Null /\ last.request.local_skills = {})
        => /\ last.response.new_skills = LiveAtSync
           /\ last.response.updated_skills = {}
           /\ last.response.deleted_skills = {}

\* C12: with a non-null last_sync, new is the live skills created after it
\* that the agent does not hold, updated is the live skills updated after it
\* that the agent holds, and no skill is in both.
C12_IncrementalSync ==
    (Synced /\ last.request.last_sync # Null)
        => /\ last.response.new_skills =
                {e.skill_id : e \in {x \in last.index_before :
                    /\ x.created_at > last.request.last_sync
                    /\ x.skill_id \notin last.request.local_skills}}
           /\ last.response.updated_skills =
                {e.skill_id : e \in {x \in last.index_before :
                    /\ x.updated_at > last.request.last_sync
                    /\ x.skill_id \in last.request.local_skills}}
           /\ last.response.new_skills \cap last.response.updated_skills = {}

\* C13: deleted is exactly the ids of the request's local list that have no
\* entry in the live index.
C13_SyncDeletions ==
    Synced => last.response.deleted_skills =
                 last.request.local_skills \ LiveAtSync

\* C14: the last_sync of the request the agent builds for a sync equals the
\* next_sync the coordinator returned to it on the sync before.
C14_CursorEcho ==
    (last.op = "sync" /\ last.via = "sdk" /\ last.cursor_before # Null)
        => last.request.last_sync = last.cursor_before

(***************************************************************************)
(* Bare repository                                                         *)
(***************************************************************************)
GitMutations == {"add_skill", "create_branch", "merge_branch"}

\* C15: on a bare repository add_skill, create_branch and merge_branch each
\* fail with ValueError and leave the working tree, the commit log, the
\* branches and HEAD as they were.
C15_BareStoreGuard ==
    (bare_mode /\ last.via = "git" /\ last.op \in GitMutations)
        => /\ last.outcome = "ValueError"
           /\ StoreState = last.store_before

C15_Witness ==
    /\ bare_mode
    /\ last.via = "git"
    /\ last.op = "create_branch"
    /\ last.outcome = "ValueError"

WritesOf(name) ==
    SelectSeq(commits, LAMBDA c : c.stem # <<>> /\ c.sidecar.name = name)

\* ids are drawn in the order the handler receives the requests
InReceiptOrder(log) ==
    \A i, j \in DOMAIN log : i < j => log[i].skill_id < log[j].skill_id

\* C17: once the writes to one skill have completed, every index entry of
\* that skill reflects the revision committed last, and the commits of those
\* writes are in the order in which the coordinator received them.
C17_LastWriterWins ==
    \A e \in collection :
        LET writes == WritesOf(e.name)
        IN  (\E i \in DOMAIN writes : writes[i].skill_id = e.skill_id)
                => /\ writes[Len(writes)].skill_id = e.skill_id
                   /\ InReceiptOrder(writes)

\* the mutating calls in flight on one handle
InFlightOn(handle) == {c \in inflight : c.handle = handle}

\* C18: at most one mutating call is in flight on the index and at most one
\* on the repository, whatever requests are waiting; while update_skill is
\* between its delete and its insert, no other call on the index is in
\* flight.
C18_OneMutationInFlight ==
    /\ \A handle \in {"index", "store"} : Cardinality(InFlightOn(handle)) <= 1
    /\ \A t \in 1..MaxTasks :
         tasks[t].pc = "in_update_add"
            => InFlightOn("index") = {Call(t, "index", "update_skill")}

C18_Witness ==
    \E t, u \in 1..MaxTasks :
        /\ tasks[t].pc = "in_update_add"
        /\ tasks[u].kind \in {"create", "delete"}
        /\ tasks[u].pc = "received"

(***************************************************************************)
(* Notification Hub: broadcast                                             *)
(***************************************************************************)
\* the sends broadcast has attempted on the socket of client c
AttemptsOn(c) == Len(SelectSeq(bcast.attempts, LAMBDA a : a.client = c))

\* the connections broadcast owes a send: registered at the call, not excluded
Addressees == {c \in bcast.at_call : c # bcast.exclude}

\* C19: broadcast attempts exactly one send to every connection that is in
\* the registry when it is called and is not exclude, none to exclude, and
\* a failed send neither stops the other sends nor reaches the caller.
C19_BroadcastFanOut ==
    /\ bcast.phase # "raised"
    /\ bcast.phase = "returned"
         => \A c \in 1..MaxConn :
               AttemptsOn(c) = IF c \in Addressees THEN 1 ELSE 0

\* C19, amended: broadcast attempts exactly one send to every connection
\* that is in the registry when it is called, is not exclude and is still
\* registered when its send is started; it attempts none to the others;
\* a failed send neither stops the other sends nor reaches the caller.
C19_BroadcastFanOutRegistered ==
    /\ bcast.phase # "raised"
    /\ bcast.skipped \cap clients = {}
    /\ bcast.phase = "returned"
         => \A c \in 1..MaxConn :
               AttemptsOn(c) = IF c \in Addressees \ bcast.skipped THEN 1
                               ELSE 0

C19_Witness ==
    /\ bcast.phase = "returned"
    /\ bcast.exclude \in bcast.at_call
    /\ Len(bcast.attempts) = 2
    /\ bcast.attempts[1].result = "failed"
    /\ bcast.attempts[2].result = "sent"

\* C20: whatever connects and disconnects happen around it, broadcast
\* attempts a send only on a connection that is in the registry at that
\* moment, and it never raises.
C20_BroadcastSnapshot ==
    /\ \A i \in DOMAIN bcast.attempts : bcast.attempts[i].registered
    /\ bcast.phase # "raised"

C20_Witness ==
    /\ bcast.phase = "returned"
    /\ bcast.skipped # {}
    /\ bcast.attempts # <<>>
    /\ clients \ bcast.at_call # {}

(***************************************************************************)
(* Notification Hub: connections, inbound messages, unicast                *)
(***************************************************************************)
\* the connection with client id c has been closed
Closed(c) == connections[c].socket \in {"closed", "timed_out"}

\* client id c is in neither map of the registry
Unregistered(c) == c \notin clients /\ c \notin DOMAIN client_info

\* C21: a connection that is closed, by the peer, by an exception in its
\* handler or by the keepalive after a missed heartbeat, is eventually in
\* neither self.clients nor self.client_info; and no send is attempted on
\* a connection whose handler has unregistered it.
C21_ClosedIsRemoved ==
    /\ [](\A i \in DOMAIN wire.replies :
            wire.replies[i].removed => wire.replies[i].result = "absent")
    /\ \A c \in 1..MaxConn : Closed(c) ~> Unregistered(c)

C21_Witness ==
    /\ wire.op = "send"
    /\ wire.replies[1].result = "absent"
    /\ connections[wire.client] = [handler |-> "gone", socket |-> "timed_out"]
    /\ Unregistered(wire.client)
    /\ \E c \in 1..MaxConn : connections[c].handler = "failed"

\* the message has no type the hub dispatches on: it is no JSON object, or
\* its type (read as "unknown" when the field is missing) is not ping, not
\* register and not a key of the handlers registered when it arrived
Undispatched(message, handlers) ==
    ~(/\ message.wellformed
      /\ message.is_object
      /\ MsgType(message) \in {"ping", "register"} \cup handlers)

\* C22: an inbound message whose type is not ping, not register and has no
\* registered handler is answered with exactly one send of type error on
\* the connection it came from.
C22_UnknownTypeAnswered ==
    (wire.op = "message" /\ Undispatched(wire.message, wire.handlers))
        => /\ Len(wire.replies) = 1
           /\ wire.replies[1].type = "error"
           /\ wire.replies[1].to = wire.client
           /\ wire.replies[1].result # "absent"

C22_Witness ==
    /\ wire.op = "message"
    /\ wire.message = Message(TRUE, TRUE, NoType)
    /\ wire.handlers = {"task"}
    /\ wire.branch = "unknown"
    /\ wire.replies[1].result = "sent"

\* C23: _send_to_client never raises: for an id that is not registered it
\* attempts nothing, a failed send on the socket is logged, and the
\* registry is as it was before the call.
C23_SendNeverRaises ==
    /\ ~wire.raised
    /\ wire.registry_kept
    /\ \A i \in DOMAIN wire.replies :
          /\ ~wire.replies[i].raised
          /\ ~wire.replies[i].registered => wire.replies[i].result = "absent"
          /\ wire.replies[i].result = "failed" => wire.replies[i].logged

C23_Witness ==
    /\ wire.op = "send"
    /\ wire.client \in clients
    /\ wire.replies[1].result = "failed"
    /\ wire.registry_kept

(***************************************************************************)
(* Startup                                                                 *)
(***************************************************************************)
\* the request handled last went through its handler's adapter calls
Processed ==
    /\ last.op \in {"create", "delete", "sync"}
    /\ last.outcome \in {"ok", "error500"}

\* C26: the coordinator serves only with the repository initialised and
\* both adapters assigned; a startup in which GitManager.initialize or the
\* VectorStore constructor fails leaves it down; and every request that was
\* processed met an initialised repository.
C26_RefusesToServe ==
    /\ pc = "serving" => (adapters = Adapters /\ repo_exists)
    /\ (last.op = "startup" /\ last.outcome = "failed")
          => (pc = "down" /\ adapters = {})
    /\ Processed => repo_exists
    /\ last.outcome # "error503"

C26_Witness ==
    /\ last.op = "startup"
    /\ last.outcome = "failed"
    /\ pc = "down"
    /\ ~repo_exists

\* skills/<stem>.py has an entry in the index
Indexed(stem) == \E e \in collection : sanitize_filename(e.name) = stem

\* C27: a startup whose rebuild fails on some skill files still indexes the
\* other files and serves, and the files the last rebuild failed on are in
\* the index after the next startup unless they fail in it again.
C27_RebuildRetried ==
    (last.op = "startup" /\ last.outcome = "ok" /\ ~bare_mode)
        => /\ pc = "serving"
           /\ last.rebuilt =>
                 \A stem \in DOMAIN skills \ last.failed : Indexed(stem)
           /\ \A stem \in owed \ last.failed : Indexed(stem)

(***************************************************************************)
(* SDK: the request loop                                                   *)
(***************************************************************************)
\* the SDK call has ended
Ended == call.phase \in {"returned", "raised"}

\* the attempts of the call that failed in the transport
Transient(i) == call.log[i] \in TransportErrors

\* C24: a request makes at most 3 attempts, sleeping the fixed backoff
\* between two attempts; it returns on the first attempt that succeeds, it
\* raises after the third transient failure without a fourth attempt, and
\* it always ends.
C24_BoundedRetry ==
    /\ [](/\ Len(call.log) <= 3
          /\ \A i \in DOMAIN call.log :
                call.log[i] = "200" => (i = Len(call.log) /\ call.phase = "returned")
          /\ call.phase = "returned" =>
                (call.log # <<>> /\ call.log[Len(call.log)] = "200")
          /\ (Len(call.log) = 3 /\ \A i \in 1..3 : Transient(i)) =>
                (call.phase = "raised" /\ call.error = "request_failed")
          /\ (Ended /\ call.log # <<>>) =>
                call.slept = Backoff * (Len(call.log) - 1))
    /\ (call.phase = "trying") ~> Ended

C24_Witness ==
    /\ call.phase = "raised"
    /\ call.error = "request_failed"
    /\ call.log = <<"ConnectError", "ReadTimeout", "ConnectError">>
    /\ call.slept = 2

\* C25: a not-found, conflict or validation answer ends the request on the
\* attempt that met it, under an error kind of its own, and only a
\* transient failure is followed by another attempt.
C25_OnlyTransientRetried ==
    /\ \A i \in DOMAIN call.log :
          call.log[i] \in {"404", "409", "422"} =>
             /\ i = Len(call.log)
             /\ call.phase = "raised"
             /\ call.error \in {"not_found", "conflict", "http_error"}
    /\ \A i \in DOMAIN call.log : i < Len(call.log) => Transient(i)
    /\ (call.phase = "sleeping" /\ call.log # <<>>) => Transient(Len(call.log))

(***************************************************************************)
(* Search and list                                                         *)
(***************************************************************************)
\* C28: a search with a tags filter returns only entries that carry every
\* requested tag as one of their tags, whatever the order of the requested
\* tags, and at most top_k entries.
C28_FilterCorrect ==
    (last.op = "search_skills" /\ last.via = "adapter")
        => /\ \A e \in last.hits :
                 Range(last.filter.tags) \subseteq Range(Tags(e))
           /\ Cardinality(last.hits) <= last.filter.top_k
           /\ ~last.fault =>
                 Cardinality(last.hits) =
                    Min(last.filter.top_k,
                        Cardinality({e \in collection :
                            /\ Range(last.filter.tags) \subseteq Range(Tags(e))
                            /\ Matches(e, where_filter(<<>>, last.filter.author,
                                                       last.filter.status))}))

\* the entries a search can return under a filter when top_k is not less
\* than the size of the index
SearchAllowed(filter) ==
    UNION query(collection,
                where_filter(filter.tags, filter.author, filter.status),
                Cardinality(collection), FALSE)

\* C29: under one filter on tag, author and status, given or left out, list
\* returns the entries search can return.
C29_SameFilterSemantics ==
    (last.op = "list_skills" /\ last.outcome = "ok")
        => last.hits = SearchAllowed(last.filter)

(***************************************************************************)
(* GitManager.initialize                                                   *)
(***************************************************************************)
\* initialize has just returned
Initialized == last.op = "initialize"

\* repo_path held a repository, of either mode, before the call
HeldStore == {".git", "objects"} \cap last.store_before[1] # {}

\* the call left the directory and the log as they were
LeftAlone == disk = last.store_before[1] /\ commits = last.store_before[2]

\* C30: initialize on a path that holds a store opens it and creates no
\* commit and no scaffold file, so that calling it again changes nothing;
\* on a path that holds none it creates the scaffold and exactly one
\* initial commit.
C30_InitializeIdempotent ==
    Initialized =>
        IF HeldStore THEN LeftAlone
        ELSE /\ Scaffold \subseteq disk
             /\ commits = <<InitialCommit>>

\* C30, amended: initialize on a path that holds a store of the manager's
\* mode opens it and creates no commit and no file, so that calling it
\* again in that mode changes nothing; on a path that holds none of that
\* mode, a manager with a working tree creates the scaffold and exactly one
\* initial commit, and a bare manager creates the bare repository alone.
C30_InitializeIdempotentInMode ==
    /\ [](Initialized =>
            IF last.existed THEN LeftAlone
            ELSE IF bare_mode
                 THEN /\ disk = last.store_before[1] \cup BareLayout
                      /\ commits = last.store_before[2]
                 ELSE /\ disk = last.store_before[1] \cup {".git"} \cup Scaffold
                      /\ commits = last.store_before[2] \o <<InitialCommit>>
                      /\ Len(SelectSeq(commits,
                                LAMBDA c : c = InitialCommit)) = 1)
    /\ [][(Initialized /\ GmInitialize) => UNCHANGED <<disk, commits>>]_vars

\* a second initialize on a repository that holds the scaffold, the initial
\* commit and the commit of one skill
C30_Witness ==
    /\ Initialized
    /\ ~bare_mode
    /\ last.existed
    /\ Scaffold \subseteq disk
    /\ Len(commits) = 2
    /\ commits[1] = InitialCommit
    /\ LeftAlone

(***************************************************************************)
(* GitManager.add_skill                                                    *)
(***************************************************************************)
\* GitManager.add_skill has just returned or raised
GitAdded == last.op = "add_skill" /\ last.via = "git"

\* C31: add_skill either appends one revision that holds the code file and
\* the sidecar of the skill, or fails and leaves the files and the log of
\* the repository as they were; the log never shrinks and no revision in
\* it changes.
C31_CommitAtomic ==
    GitAdded =>
        IF last.committed
        THEN /\ Len(commits) = Len(last.store_before[3]) + 1
             /\ SubSeq(commits, 1, Len(commits) - 1) = last.store_before[3]
             /\ commits[Len(commits)].skill_id = last.id
             /\ commits[Len(commits)].sidecar.id = last.id
        ELSE StoreState = last.store_before

\* C32: the sidecar add_skill writes for a skill is enough to build the
\* skill again, equal in every field but the code, and rebuild_index builds
\* it so.
C32_SidecarRoundTrip ==
    last.op = "rebuild_index"
        => \A r \in last.restored : \A skill \in FullSkills :
              meta_data(skill) = r.sidecar => r.skill = skill

(***************************************************************************)
(* VectorStore.persist                                                     *)
(***************************************************************************)
\* a write on the index has returned to its caller
IndexWritten ==
    /\ last.op \in {"add_skill", "update_skill", "delete_skill"}
    /\ last.outcome = "ok"

\* C33: every add, update and delete on the index calls persist before it
\* returns, the shutdown calls persist before the process exits, and a
\* failure of persist is not raised to the caller.
C33_FlushPerWrite ==
    /\ IndexWritten => last.flush # "none"
    /\ last.op = "shutdown" => (last.flush # "none" /\ pc = "down")
    /\ last.flush = "swallowed" => last.outcome = "ok"
    /\ (IndexWritten /\ last.flush = "done") => persisted = collection
    /\ (last.op = "shutdown" /\ last.flush = "done")
          => persisted = last.index_before

\* an update that returned although its persist failed
C33_Witness ==
    /\ last.op = "update_skill"
    /\ last.outcome = "ok"
    /\ last.flush = "swallowed"
    /\ persisted # collection

(***************************************************************************)
(* validate_skill_code                                                     *)
(***************************************************************************)
\* C34: whatever the code, empty and blank code included, validation of a
\* language that has no checker succeeds.
C34_UnsupportedLanguageOk ==
    (last.op = "validate" /\ last.language # "python") => last.success

(***************************************************************************)
(* The index against the repository                                        *)
(***************************************************************************)
\* the log of the repository holds a revision that records the id
Committed(skill_id) == \E i \in DOMAIN commits : commits[i].skill_id = skill_id

\* C35: with a working tree, every skill id that has an entry in the index
\* has a revision in the repository that records it, whatever creates and
\* deletes were served and whichever of their commits failed.
C35_IndexedIsCommitted ==
    ~bare_mode => \A e \in collection : Committed(e.skill_id)

(***************************************************************************)
(* Deletion and the rebuild                                                *)
(***************************************************************************)
\* the index holds the skill of a removed entry again: under its id, or
\* under another id with its name, author and code
Reappears(x) ==
    \E e \in collection :
        \/ e.skill_id = x.skill_id
        \/ (e.name = x.name /\ e.author = x.author /\ e.document = x.document)

\* C36: a skill whose delete has succeeded is in the index of no later
\* state in which the coordinator serves, a restart with a rebuild
\* included, as long as it is not created again.
C36_DeletedStaysDeleted ==
    pc = "serving" => \A x \in removed : ~Reappears(x)

(***************************************************************************)
(* The files of two skills                                                 *)
(***************************************************************************)
\* the working tree holds the code and the sidecar a revision recorded
InTree(c) ==
    \E stem \in DOMAIN skills \cap DOMAIN metadata :
        /\ metadata[stem] = c.sidecar
        /\ skills[stem] = c.code

\* C37: the skill file and the sidecar of every committed skill hold that
\* skill's own code and metadata, whatever other skills were committed
\* after it, under the same name or under a name with the same file name.
C37_NoOverwrite ==
    \A i \in DOMAIN commits :
        commits[i].skill_id # 0 => InTree(commits[i])

(***************************************************************************)
(* A create that fails                                                     *)
(***************************************************************************)
\* the create request handled last was answered with an error
CreateFailed ==
    /\ last.op = "create"
    /\ last.outcome \in {"error500", "error503"}

\* C38: a create answered with an error has left no entry for the new id in
\* the index and no file and no revision in the repository.
C38_FailedCreatePersistsNothing ==
    CreateFailed =>
        /\ ~HasDoc(collection, DocId(last.id))
        /\ ~HasDoc(persisted, DocId(last.id))
        /\ ~Committed(last.id)
        /\ collection = last.index_before
        /\ <<skills, metadata, commits>> = last.store_before

\* a create that failed in the index of a coordinator with a working tree
\* that holds a skill
C38_Witness ==
    /\ CreateFailed
    /\ last.fault
    /\ last.id = 2
    /\ ~bare_mode
    /\ Cardinality(collection) = 1
    /\ Len(commits) = 2

\* C39: in every state of the hub, under connect, register, message
\* handling, disconnect and stop, self.clients and self.client_info hold the
\* same connection ids; a handler that can still be given a message has its
\* record, and no register was answered from a KeyError.
C39_RegistryInvariant ==
    /\ clients = DOMAIN client_info
    /\ \A c \in 1..MaxConn :
          connections[c].handler \in {"welcome", "listening"}
              => c \in clients /\ c \in DOMAIN client_info
    /\ wire.branch # "KeyError"
    /\ (wire.op = "message" /\ MsgType(wire.message) = "register"
          /\ wire.message.wellformed /\ wire.message.is_object)
            => wire.branch = "register"

\* the hub is stopped with one registered agent whose socket it closes,
\* after another connection was unregistered
C39_Witness ==
    /\ wire.op = "stop"
    /\ \E c \in clients :
          /\ client_info[c].agent_name = "agent"
          /\ connections[c].socket = "closed"
          /\ connections[c].handler = "listening"
    /\ \E d \in 1..MaxConn : connections[d].handler \in {"gone", "failed"}

\* the branches of _handle_message a bad message ends in
BadBranches == {"JSONDecodeError", "Exception", "KeyError"}

\* C40: a message that is not valid JSON, or whose ping, register or custom
\* handling raises, is answered with one error reply to its sender (delivered
\* when the socket is open); the step leaves the registry and the connection
\* as they were, the sender registered and its handler in its
\* `async for`, ready for the next message.
C40_BadMessageKeepsConnection ==
    [][(wire' # wire /\ wire'.op = "message" /\ wire'.branch \in BadBranches)
        => LET c == wire'.client
           IN  /\ Len(wire'.replies) = 1
               /\ wire'.replies[1].type = "error"
               /\ wire'.replies[1].to = c
               /\ connections[c].socket = "open"
                     => wire'.replies[1].result = "sent"
               /\ ~wire'.raised
               /\ clients' = clients
               /\ client_info' = client_info
               /\ c \in clients' /\ c \in DOMAIN client_info'
               /\ connections' = connections
               /\ connections'[c].handler = "listening"]_vars

\* a custom handler raised on a message of an open connection, which was
\* answered with the error and is still registered and listening
C40_Witness ==
    /\ wire.op = "message"
    /\ wire.branch = "Exception"
    /\ wire.message.wellformed /\ wire.message.is_object
    /\ MsgType(wire.message) \in wire.handlers
    /\ Len(wire.replies) = 1
    /\ wire.replies[1].type = "error"
    /\ wire.replies[1].result = "sent"
    /\ wire.client \in clients
    /\ connections[wire.client] = [handler |-> "listening", socket |-> "open"]

====
